---------------------------- MODULE Spec2Model ----------------------------
(***************************************************************************)
(* A model of the Kindle "My Clippings.txt" parser (src/src/js/parser.js,  *)
(* src/src/js/models.js) and of the page that drives it: file handling,    *)
(* reset and the PDF export of KindleNotesApp (src/src/js/app.js,          *)
(* src/unnamed/part_002).                                                  *)
(*                                                                         *)
(* A JavaScript string is modelled as a sequence of characters, each       *)
(* character a one-character TLA+ string; the byte-order mark U+FEFF is    *)
(* written "BOM".  The string methods and the regular expressions of the   *)
(* source are operators on such sequences, computed as the engine computes *)
(* them.                                                                   *)
(***************************************************************************)
EXTENDS Integers, Sequences, FiniteSets, Bags, TLC

VARIABLES
    notes,      \* this.notes: the flat list of KindleNote
    books,      \* this.books: the own properties of the grouping object, in enumeration order
    threw,      \* whether the last parseFile call ended by raising
    content,    \* the argument of the last parseFile call
    parsed,     \* whether parseFile was called since construction
    now,        \* the clock read by new Date()
    parsedAt,   \* the clock at the last parseFile call
    sameTextAt, \* the clock at the call before the last, when it was given the same text; else -1
    fnArg,      \* the last call: its operation and arguments (a function alone: its argument)
    fnRes,      \* the last call: what it returned
    fnDone,     \* whether a call has returned
    ui,         \* the page: which elements are displayed, the form fields, what is rendered
    reads,      \* the files whose text a handleFile run awaits, as a bag
    pdf         \* the per-book PDF export: the library, its script element, the timer

vars == <<notes, books, threw, content, parsed, now, parsedAt, sameTextAt, fnArg, fnRes, fnDone,
          ui, reads, pdf>>

-----------------------------------------------------------------------------
(* Bounds of the model *)

MaxEntries == 2
MaxClock == 1
MaxTitleLen == 7
MaxMetaAtoms == 3
MaxEntryLen == 6
MaxSortLen == 3
MaxCleanAtoms == 3

-----------------------------------------------------------------------------
(* Characters and literal strings of the source *)

BOM == "BOM"
NL == "\n"
CR == "\r"
SP == " "

SEPARATOR == <<"=", "=", "=", "=", "=", "=", "=", "=", "=", "=">>
kwHighlight == <<"H", "i", "g", "h", "l", "i", "g", "h", "t">>
kwBookmark == <<"B", "o", "o", "k", "m", "a", "r", "k">>
kwNote == <<"N", "o", "t", "e">>
kwUnknown == <<"U", "n", "k", "n", "o", "w", "n">>
kwLocation == <<"L", "o", "c", "a", "t", "i", "o", "n", " ">>
kwPage == <<"p", "a", "g", "e", " ">>
kwAddedOn == <<"A", "d", "d", "e", "d", " ", "o", "n", " ">>

\* The property names every object inherits from Object.prototype.
ObjectPrototypeKeys ==
    { <<"c", "o", "n", "s", "t", "r", "u", "c", "t", "o", "r">>,
      <<"_", "_", "p", "r", "o", "t", "o", "_", "_">>,
      <<"t", "o", "S", "t", "r", "i", "n", "g">>,
      <<"v", "a", "l", "u", "e", "O", "f">>,
      <<"h", "a", "s", "O", "w", "n", "P", "r", "o", "p", "e", "r", "t", "y">>,
      <<"i", "s", "P", "r", "o", "t", "o", "t", "y", "p", "e", "O", "f">>,
      <<"p", "r", "o", "p", "e", "r", "t", "y", "I", "s", "E", "n", "u", "m", "e", "r", "a", "b", "l", "e">>,
      <<"t", "o", "L", "o", "c", "a", "l", "e", "S", "t", "r", "i", "n", "g">>,
      <<"_", "_", "d", "e", "f", "i", "n", "e", "G", "e", "t", "t", "e", "r", "_", "_">>,
      <<"_", "_", "d", "e", "f", "i", "n", "e", "S", "e", "t", "t", "e", "r", "_", "_">>,
      <<"_", "_", "l", "o", "o", "k", "u", "p", "G", "e", "t", "t", "e", "r", "_", "_">>,
      <<"_", "_", "l", "o", "o", "k", "u", "p", "S", "e", "t", "t", "e", "r", "_", "_">> }

Digits == {"0", "1", "2", "3", "4", "5", "6", "7", "8", "9"}

\* ECMAScript WhiteSpace and LineTerminator, as far as the model's alphabet goes:
\* what String.prototype.trim strips and what \s matches.
IsWs(c) == c \in {SP, NL, CR, BOM}

\* What the regular expression atom . does not match.
IsLineTerminator(c) == c \in {NL, CR}

-----------------------------------------------------------------------------
(* String methods *)

RECURSIVE SkipWs(_, _)
\* The first index >= i of s that holds no whitespace (Len(s) + 1 when none).
SkipWs(s, i) ==
    IF i <= Len(s) /\ IsWs(s[i]) THEN SkipWs(s, i + 1) ELSE i

RECURSIVE SkipWsBack(_, _)
\* The last index <= i of s that holds no whitespace (0 when none).
SkipWsBack(s, i) ==
    IF i >= 1 /\ IsWs(s[i]) THEN SkipWsBack(s, i - 1) ELSE i

\* String.prototype.trim
Trim(s) ==
    LET a == SkipWs(s, 1)
        b == SkipWsBack(s, Len(s))
    IN  IF a > b THEN <<>> ELSE SubSeq(s, a, b)

\* Whether p occurs in s at index i.
StartsWithAt(s, i, p) ==
    /\ i >= 1
    /\ i + Len(p) - 1 <= Len(s)
    /\ \A k \in 1..Len(p) : s[i + k - 1] = p[k]

\* The first index >= i at which p occurs in s, 0 when there is none.
IndexOf(s, p, i) ==
    LET at == {k \in i..(Len(s) - Len(p) + 1) : StartsWithAt(s, k, p)}
    IN  IF at = {} THEN 0 ELSE CHOOSE k \in at : \A j \in at : k <= j

\* String.prototype.includes
Includes(s, p) == IndexOf(s, p, 1) # 0

RECURSIVE Split(_, _)
\* String.prototype.split with a non-empty literal separator.
Split(s, d) ==
    LET i == IndexOf(s, d, 1)
    IN  IF i = 0 THEN <<s>>
        ELSE <<SubSeq(s, 1, i - 1)>> \o Split(SubSeq(s, i + Len(d), Len(s)), d)

RECURSIVE Join(_, _)
\* Array.prototype.join
Join(ss, d) ==
    IF ss = <<>> THEN <<>>
    ELSE IF Len(ss) = 1 THEN ss[1]
    ELSE ss[1] \o d \o Join(Tail(ss), d)

RECURSIVE SelectNonEmpty(_)
\* Array.prototype.filter(line => line): the non-empty strings, in order.
SelectNonEmpty(ss) ==
    IF ss = <<>> THEN <<>>
    ELSE IF ss[1] = <<>> THEN SelectNonEmpty(Tail(ss))
    ELSE <<ss[1]>> \o SelectNonEmpty(Tail(ss))

\* Array.prototype.map(line => line.trim())
MapTrim(ss) == [i \in 1..Len(ss) |-> Trim(ss[i])]

RECURSIVE DigitRunEnd(_, _)
\* The last index of the run of digits of s that starts at i (i - 1 when s[i] is no digit).
DigitRunEnd(s, i) ==
    IF i <= Len(s) /\ s[i] \in Digits THEN DigitRunEnd(s, i + 1) ELSE i - 1

-----------------------------------------------------------------------------
(* JavaScript values *)

Null == [type |-> "null"]
Undefined == [type |-> "undefined"]
Inherited == [type |-> "inherited"]    \* a function or object found on Object.prototype

\* ToBoolean of the values the model holds: objects (arrays and dates among them) are true.
Truthy(v) == v.type \notin {"null", "undefined"}

ValidDate(t) == [type |-> "Date", valid |-> TRUE, time |-> t]
InvalidDate == [type |-> "Date", valid |-> FALSE, time |-> 0]

\* isNaN(date)
IsNaNDate(d) == ~d.valid

KindleNote(bookTitle, author, noteType, location, page, dateAdded, text) ==
    [type |-> "KindleNote", bookTitle |-> bookTitle, author |-> author,
     noteType |-> noteType, location |-> location, page |-> page,
     dateAdded |-> dateAdded, content |-> text]

\* A string value, where a field holds a string or null.
JsString(s) == [type |-> "string", chars |-> s]

-----------------------------------------------------------------------------
(* Dates *)

DigitValue(c) ==
    CASE c = "0" -> 0 [] c = "1" -> 1 [] c = "2" -> 2 [] c = "3" -> 3 [] c = "4" -> 4
      [] c = "5" -> 5 [] c = "6" -> 6 [] c = "7" -> 7 [] c = "8" -> 8 [] c = "9" -> 9

RECURSIVE parseInt(_)
\* parseInt of a run of decimal digits.
parseInt(d) ==
    IF d = <<>> THEN 0
    ELSE 10 * parseInt(SubSeq(d, 1, Len(d) - 1)) + DigitValue(d[Len(d)])

\* Whether d is a run of at least lo and at most hi digits.
IsDigits(d, lo, hi) ==
    Len(d) >= lo /\ Len(d) <= hi /\ \A k \in 1..Len(d) : d[k] \in Digits

MonthNames ==
   <<
      <<"J", "a", "n", "u", "a", "r", "y">>,
      <<"F", "e", "b", "r", "u", "a", "r", "y">>,
      <<"M", "a", "r", "c", "h">>,
      <<"A", "p", "r", "i", "l">>,
      <<"M", "a", "y">>,
      <<"J", "u", "n", "e">>,
      <<"J", "u", "l", "y">>,
      <<"A", "u", "g", "u", "s", "t">>,
      <<"S", "e", "p", "t", "e", "m", "b", "e", "r">>,
      <<"O", "c", "t", "o", "b", "e", "r">>,
      <<"N", "o", "v", "e", "m", "b", "e", "r">>,
      <<"D", "e", "c", "e", "m", "b", "e", "r">> >>

\* The time value of a date, in seconds from the start of 1970, with every
\* month counted as 31 days.
TimeValue(y, mo, d, h, mi, se) ==
    (((y - 1970) * 12 + (mo - 1)) * 31 + (d - 1)) * 86400 + h * 3600 + mi * 60 + se

\* The fields of a date text split at spaces: weekday, month, day, year, time, AM/PM.
DateTokens(s) == Split(s, <<SP>>)

\* Whether s has the form the Kindle writes, "Tuesday, April 1, 2025 4:47:55 PM".
IsKindleDate(s) ==
    LET tk == DateTokens(s)
    IN  /\ Len(tk) = 6
        /\ Len(tk[1]) >= 2 /\ tk[1][Len(tk[1])] = ","
        /\ \E m \in 1..Len(MonthNames) : MonthNames[m] = tk[2]
        /\ Len(tk[3]) >= 2 /\ tk[3][Len(tk[3])] = ","
        /\ IsDigits(SubSeq(tk[3], 1, Len(tk[3]) - 1), 1, 2)
        /\ IsDigits(tk[4], 4, 4)
        /\ LET hms == Split(tk[5], <<":">>)
           IN  Len(hms) = 3 /\ IsDigits(hms[1], 1, 2) /\ IsDigits(hms[2], 2, 2)
               /\ IsDigits(hms[3], 2, 2)
        /\ tk[6] \in {<<"A", "M">>, <<"P", "M">>}

\* The time value of a text of the Kindle's form.
KindleTimeValue(s) ==
    LET tk == DateTokens(s)
        hms == Split(tk[5], <<":">>)
        h == (parseInt(hms[1]) % 12) + (IF tk[6] = <<"P", "M">> THEN 12 ELSE 0)
    IN  TimeValue(parseInt(tk[4]),
                  CHOOSE m \in 1..Len(MonthNames) : MonthNames[m] = tk[2],
                  parseInt(SubSeq(tk[3], 1, Len(tk[3]) - 1)),
                  h, parseInt(hms[2]), parseInt(hms[3]))

\* new Date(dateStr) for a string.  Two forms are modelled: the year-only form
\* YYYY of the date-time string format, and the form the Kindle writes, which
\* browsers accept.  Every other string the model produces after "Added on "
\* holds a letter and no digit, which no form and no engine accepts: the time
\* value is NaN.  The constructor does not raise for a string.
DateFromString(s) ==
    IF IsDigits(s, 4, 4) THEN ValidDate(TimeValue(parseInt(s), 1, 1, 0, 0, 0))
    ELSE IF IsKindleDate(s) THEN ValidDate(KindleTimeValue(s))
    ELSE InvalidDate

\* new Date()
DateNow(t) == ValidDate(t)

\* parseKindleDate: new Date(dateStr) inside a try whose catch returns null;
\* the constructor does not raise, so the catch is never taken.
parseKindleDate(dateStr) == DateFromString(dateStr)

-----------------------------------------------------------------------------
(* parseTitleAuthor *)

\* The pattern with ([^)]*) as its second group: an empty "()" matches too.
TitleMatchAtEmptyGroup(line, i) ==
    LET n == Len(line)
        j == SkipWs(line, i + 1)
    IN  /\ \A k \in 1..i : ~IsLineTerminator(line[k])
        /\ j <= n
        /\ line[j] = "("
        /\ line[n] = ")"
        /\ n - j >= 1
        /\ \A k \in (j + 1)..(n - 1) : line[k] # ")"

\* Whether /^(.+?)\s*\(([^)]+)\)$/ matches line with a first group of length i.
TitleMatchAt(line, i) ==
    LET n == Len(line)
        j == SkipWs(line, i + 1)
    IN  /\ \A k \in 1..i : ~IsLineTerminator(line[k])
        /\ j <= n
        /\ line[j] = "("
        /\ line[n] = ")"
        /\ n - j >= 2
        /\ \A k \in (j + 1)..(n - 1) : line[k] # ")"

\* The pattern with a greedy first group (.+): the greatest length that matches.
TitleMatchLenGreedy(line, from) ==
    LET S == {i \in from..Len(line) : TitleMatchAt(line, i)}
    IN  IF S = {} THEN 0 ELSE CHOOSE i \in S : \A k \in S : k <= i

RECURSIVE TitleMatchLen(_, _)
\* The length of the lazy first group: the least i >= from that matches, 0 when none.
TitleMatchLen(line, from) ==
    IF from > Len(line) THEN 0
    ELSE IF TitleMatchAt(line, from) THEN from
    ELSE TitleMatchLen(line, from + 1)

\* titleLine.replace(/^\ufeff/, '')
StripBOM(titleLine) ==
    IF titleLine # <<>> /\ titleLine[1] = BOM THEN Tail(titleLine) ELSE titleLine

\* The pattern with (.*?) as its first group: the title may be empty.
parseTitleAuthorEmptyTitle(titleLine) ==
    LET line == StripBOM(titleLine)
        i == TitleMatchLen(line, 1)
    IN  IF TitleMatchAt(line, 0)
        THEN <<<<>>, Trim(SubSeq(line, SkipWs(line, 1) + 1, Len(line) - 1))>>
        ELSE IF i # 0
        THEN <<Trim(SubSeq(line, 1, i)),
               Trim(SubSeq(line, SkipWs(line, i + 1) + 1, Len(line) - 1))>>
        ELSE <<line, kwUnknown>>

parseTitleAuthor(titleLine) ==
    LET line == StripBOM(titleLine)
        i == TitleMatchLen(line, 1)
    IN  IF i # 0
        THEN <<Trim(SubSeq(line, 1, i)),
               Trim(SubSeq(line, SkipWs(line, i + 1) + 1, Len(line) - 1))>>
        ELSE <<line, kwUnknown>>

-----------------------------------------------------------------------------
(* parseMetadata *)

RECURSIVE MarkerIndex(_, _, _)
\* The first index >= from where marker occurs in s followed by a digit, 0 when none:
\* where /Location (\d+...)/ and /page (\d+)/ match.
MarkerIndex(s, marker, from) ==
    LET p == IndexOf(s, marker, from)
    IN  IF p = 0 THEN 0
        ELSE IF p + Len(marker) <= Len(s) /\ s[p + Len(marker)] \in Digits THEN p
        ELSE MarkerIndex(s, marker, p + 1)

\* The capture of /Location (\d+(?:-\d+)?)/, given the match starts at p.
LocationCapture(s, p) ==
    LET a == p + Len(kwLocation)
        e1 == DigitRunEnd(s, a)
        e2 == IF e1 + 2 <= Len(s) /\ s[e1 + 1] = "-" /\ s[e1 + 2] \in Digits
              THEN DigitRunEnd(s, e1 + 2) ELSE e1
    IN  SubSeq(s, a, e2)

\* The capture of /page (\d+)/, given the match starts at p.
PageCapture(s, p) ==
    LET a == p + Len(kwPage)
    IN  SubSeq(s, a, DigitRunEnd(s, a))

RECURSIVE DateIndex(_, _)
\* Where /Added on (.+?)$/ matches: the first index >= from where "Added on "
\* occurs followed by at least one character and no line terminator up to the
\* end of the string; 0 when none.
DateIndex(s, from) ==
    LET p == IndexOf(s, kwAddedOn, from)
        a == p + Len(kwAddedOn)
    IN  IF p = 0 THEN 0
        ELSE IF a <= Len(s) /\ \A k \in a..Len(s) : ~IsLineTerminator(s[k]) THEN p
        ELSE DateIndex(s, p + 1)

\* The note type with "Note" tested before "Bookmark".
NoteTypeOfNoteFirst(metadataLine) ==
    IF Includes(metadataLine, kwHighlight) THEN kwHighlight
    ELSE IF Includes(metadataLine, kwNote) THEN kwNote
    ELSE IF Includes(metadataLine, kwBookmark) THEN kwBookmark
    ELSE kwUnknown

\* The note type: the first of the three keywords the line includes.
NoteTypeOf(metadataLine) ==
    IF Includes(metadataLine, kwHighlight) THEN kwHighlight
    ELSE IF Includes(metadataLine, kwBookmark) THEN kwBookmark
    ELSE IF Includes(metadataLine, kwNote) THEN kwNote
    ELSE kwUnknown

\* The date of the "Added on " clause: new Date(dateStr); when that is NaN,
\* parseKindleDate(dateStr) || new Date().
DateAddedOf(dateStr, t) ==
    LET first == DateFromString(dateStr)
        kindleDate == parseKindleDate(dateStr)
    IN  IF IsNaNDate(first)
        THEN (IF Truthy(kindleDate) THEN kindleDate ELSE DateNow(t))
        ELSE first

\* parseMetadata with coupled defaults: the page falls back to null only when
\* the location is missing too.
parseMetadataCoupled(metadataLine, t) ==
    LET lp == MarkerIndex(metadataLine, kwLocation, 1)
        pp == MarkerIndex(metadataLine, kwPage, 1)
        dp == DateIndex(metadataLine, 1)
        location == IF lp # 0 THEN LocationCapture(metadataLine, lp) ELSE <<>>
        page == IF pp # 0 THEN JsString(PageCapture(metadataLine, pp))
                ELSE IF lp # 0 THEN JsString(location) ELSE Null
        dateAdded ==
            IF dp # 0
            THEN DateAddedOf(SubSeq(metadataLine, dp + Len(kwAddedOn), Len(metadataLine)), t)
            ELSE DateNow(t)
    IN  <<NoteTypeOf(metadataLine), location, page, dateAdded>>

\* parseMetadata at clock t: <<noteType, location, page, dateAdded>>
parseMetadata(metadataLine, t) ==
    LET lp == MarkerIndex(metadataLine, kwLocation, 1)
        pp == MarkerIndex(metadataLine, kwPage, 1)
        dp == DateIndex(metadataLine, 1)
        location == IF lp # 0 THEN LocationCapture(metadataLine, lp) ELSE <<>>
        page == IF pp # 0 THEN JsString(PageCapture(metadataLine, pp)) ELSE Null
        dateAdded ==
            IF dp # 0
            THEN DateAddedOf(SubSeq(metadataLine, dp + Len(kwAddedOn), Len(metadataLine)), t)
            ELSE DateNow(t)
    IN  <<NoteTypeOf(metadataLine), location, page, dateAdded>>

-----------------------------------------------------------------------------
(* parseEntry *)

\* entry.split('\n').map(line => line.trim()).filter(line => line)
EntryLines(entry) == SelectNonEmpty(MapTrim(Split(entry, <<NL>>)))

\* new KindleNote(bookTitle, author, noteType, location, page, dateAdded, content)
\* from the two destructured arrays and the content.
NoteOf(ta, md, text) ==
    KindleNote(ta[1], ta[2], md[1], md[2], md[3], md[4], text)

\* parseEntry from line 47 on, given the non-blank lines of the entry.
NoteOfLines(lines, t) ==
    IF Len(lines) < 2 THEN Null
    ELSE NoteOf(parseTitleAuthor(lines[1]), parseMetadata(lines[2], t),
                Join(SubSeq(lines, 3, Len(lines)), <<NL>>))

\* parseEntry at clock t: a KindleNote, or null for fewer than two lines.
parseEntry(entry, t) == NoteOfLines(EntryLines(entry), t)


-----------------------------------------------------------------------------
(* The grouping object this.books *)

\* An object is the sequence of its own properties [key, value], in the order
\* in which Object.keys enumerates them: array-index keys ascending, then the
\* other keys in the order of their creation.

RECURSIVE OwnIndex(_, _, _)
\* The position >= i of the own property k of obj, 0 when obj has none.
OwnIndex(obj, k, i) ==
    IF i > Len(obj) THEN 0
    ELSE IF obj[i].key = k THEN i
    ELSE OwnIndex(obj, k, i + 1)

RECURSIVE DigitsLess(_, _, _)
\* For digit strings of one length: whether a is below b, comparing from index i.
DigitsLess(a, b, i) ==
    IF i > Len(a) THEN FALSE
    ELSE IF DigitValue(a[i]) # DigitValue(b[i]) THEN DigitValue(a[i]) < DigitValue(b[i])
    ELSE DigitsLess(a, b, i + 1)

\* 2^32 - 1, the first integer that is no array index.
IndexLimit == <<"4", "2", "9", "4", "9", "6", "7", "2", "9", "5">>

\* Whether the property name k is an array index: a canonical numeric string below 2^32 - 1.
IsArrayIndex(k) ==
    /\ k # <<>>
    /\ \A i \in 1..Len(k) : k[i] \in Digits
    /\ Len(k) = 1 \/ k[1] # "0"
    /\ Len(k) < Len(IndexLimit) \/ (Len(k) = Len(IndexLimit) /\ DigitsLess(k, IndexLimit, 1))

\* For array indices: whether a is numerically below b.
IndexLess(a, b) ==
    Len(a) < Len(b) \/ (Len(a) = Len(b) /\ DigitsLess(a, b, 1))

RECURSIVE InsertPos(_, _, _)
\* Where the new array-index key k goes: before the first property from i on
\* that is no array index or a greater one.
InsertPos(obj, k, i) ==
    IF i > Len(obj) THEN i
    ELSE IF ~IsArrayIndex(obj[i].key) \/ IndexLess(k, obj[i].key) THEN i
    ELSE InsertPos(obj, k, i + 1)

\* obj[k], read: the own property, else what Object.prototype gives, else undefined.
GetProp(obj, k) ==
    LET i == OwnIndex(obj, k, 1)
    IN  IF i # 0 THEN [type |-> "Array", items |-> obj[i].value]
        ELSE IF k \in ObjectPrototypeKeys THEN Inherited
        ELSE Undefined

\* obj[k] = v for a key that is not inherited from Object.prototype.
SetProp(obj, k, v) ==
    LET i == OwnIndex(obj, k, 1)
        e == [key |-> k, value |-> v]
    IN  IF i # 0 THEN [obj EXCEPT ![i] = e]
        ELSE IF IsArrayIndex(k)
        THEN LET p == InsertPos(obj, k, 1)
             IN  SubSeq(obj, 1, p - 1) \o <<e>> \o SubSeq(obj, p, Len(obj))
        ELSE Append(obj, e)

-----------------------------------------------------------------------------
(* parseFile *)

\* Lines 28-35 of the forEach callback, given the value parseEntry returned.
\* st is the parser state [notes, books, threw, entered]; threw is set when the
\* callback raises, entered lists the arguments parseEntry was called with.
PushNote(st, note) ==
    IF ~Truthy(note) THEN st
    ELSE LET notes1 == Append(st.notes, note)
             books1 == IF ~Truthy(GetProp(st.books, note.bookTitle))
                       THEN SetProp(st.books, note.bookTitle, <<>>)
                       ELSE st.books
             group == GetProp(books1, note.bookTitle)
         IN  IF group.type = "Array"
             THEN [st EXCEPT !.notes = notes1,
                             !.books = SetProp(books1, note.bookTitle,
                                               Append(group.items, note)),
                             !.threw = FALSE]
             \* .push is not a function: TypeError
             ELSE [st EXCEPT !.notes = notes1, !.books = books1, !.threw = TRUE]

\* The forEach callback that gives every entry to parseEntry, blank or not.
EntryStepEveryEntry(st, entry, t) ==
    PushNote([st EXCEPT !.entered = Append(@, Trim(entry))], parseEntry(Trim(entry), t))

\* The forEach callback on one entry, at clock t.
EntryStep(st, entry, t) ==
    IF Trim(entry) = <<>> THEN st
    ELSE PushNote([st EXCEPT !.entered = Append(@, Trim(entry))],
                  parseEntry(Trim(entry), t))

RECURSIVE ForEachEntry(_, _, _, _)
\* entries.forEach from index i on; a raise ends the loop.
ForEachEntry(entries, i, st, t) ==
    IF i > Len(entries) \/ st.threw THEN st
    ELSE ForEachEntry(entries, i + 1, EntryStep(st, entries[i], t), t)

\* parseFile at clock t: the parser state the call leaves.
parseFile(text, t) ==
    ForEachEntry(Split(text, SEPARATOR), 1,
                 [notes |-> <<>>, books |-> <<>>, threw |-> FALSE, entered |-> <<>>], t)


-----------------------------------------------------------------------------
(* sortNotesByLocation *)

RECURSIVE FirstDigitIndex(_, _)
\* The first index >= i of a digit in s, 0 when none: where /(\d+)/ matches.
FirstDigitIndex(s, i) ==
    IF i > Len(s) THEN 0
    ELSE IF s[i] \in Digits THEN i
    ELSE FirstDigitIndex(s, i + 1)

\* extractLocationNumber: 0 for the empty string and for a string without a
\* digit, else the number of the first run of digits.
extractLocationNumber(locationStr) ==
    IF locationStr = <<>> THEN 0
    ELSE LET p == FirstDigitIndex(locationStr, 1)
         IN  IF p = 0 THEN 0
             ELSE parseInt(SubSeq(locationStr, p, DigitRunEnd(locationStr, p)))

\* The comparator of the sort: negative when a goes first, 0 when they tie.
CompareLocation(a, b) ==
    extractLocationNumber(a.location) - extractLocationNumber(b.location)

RECURSIVE InsertByLocationBeforeEqual(_, _)
\* The insertion that puts r before the elements it ties with.
InsertByLocationBeforeEqual(s, r) ==
    IF s = <<>> THEN <<r>>
    ELSE IF CompareLocation(s[Len(s)], r) < 0 THEN Append(s, r)
    ELSE Append(InsertByLocationBeforeEqual(SubSeq(s, 1, Len(s) - 1), r), s[Len(s)])

RECURSIVE InsertByLocation(_, _)
\* r put into the ordered sequence s behind every element that does not
\* compare above it: Array.prototype.sort is stable.
InsertByLocation(s, r) ==
    IF s = <<>> THEN <<r>>
    ELSE IF CompareLocation(s[Len(s)], r) <= 0 THEN Append(s, r)
    ELSE Append(InsertByLocation(SubSeq(s, 1, Len(s) - 1), r), s[Len(s)])

RECURSIVE sortNotesByLocationRewriting(_)
\* A sort that also overwrites the location of every Record it moves.
sortNotesByLocationRewriting(ns) ==
    IF ns = <<>> THEN <<>>
    ELSE InsertByLocation(sortNotesByLocationRewriting(SubSeq(ns, 1, Len(ns) - 1)),
                          [ns[Len(ns)] EXCEPT !.location = <<>>])

RECURSIVE sortNotesByLocation(_)
\* notes.sort(comparator): the elements of notes in the order the sort leaves.
sortNotesByLocation(ns) ==
    IF ns = <<>> THEN <<>>
    ELSE InsertByLocation(sortNotesByLocation(SubSeq(ns, 1, Len(ns) - 1)), ns[Len(ns)])

-----------------------------------------------------------------------------
(* getStatistics, searchNotes, getBooksBySearch *)

UpperCase ==
    <<"A", "B", "C", "D", "E", "F", "G", "H", "I", "J", "K", "L", "M",
      "N", "O", "P", "Q", "R", "S", "T", "U", "V", "W", "X", "Y", "Z">>

LowerCase ==
    <<"a", "b", "c", "d", "e", "f", "g", "h", "i", "j", "k", "l", "m",
      "n", "o", "p", "q", "r", "s", "t", "u", "v", "w", "x", "y", "z">>

\* The lower-case form of one character.
ToLowerChar(c) ==
    IF \E i \in 1..Len(UpperCase) : UpperCase[i] = c
    THEN LowerCase[CHOOSE i \in 1..Len(UpperCase) : UpperCase[i] = c]
    ELSE c

\* toLowerCase that leaves every character as it is.
KeepCase(s) == s

\* String.prototype.toLowerCase
toLowerCase(s) == [i \in 1..Len(s) |-> ToLowerChar(s[i])]

\* The default of the parameter typeFilter.
kwAll == <<"a", "l", "l">>

\* The number of elements of ns with note type k: ns.filter(...).length
CountType(ns, k) == Len(SelectSeq(ns, LAMBDA n : n.noteType = k))

\* getStatistics on the list ns and the grouping bs.
getStatistics(ns, bs) ==
    [totalNotes |-> Len(ns),
     totalBooks |-> Len(bs),
     highlights |-> CountType(ns, kwHighlight),
     bookmarks |-> CountType(ns, kwBookmark),
     notes |-> CountType(ns, kwNote)]

\* The filter callback of searchNotes.
MatchesSearch(note, query, typeFilter) ==
    LET lowerQuery == toLowerCase(query)
        matchesQuery ==
            \/ query = <<>>
            \/ Includes(toLowerCase(note.content), lowerQuery)
            \/ Includes(toLowerCase(note.bookTitle), lowerQuery)
            \/ Includes(toLowerCase(note.author), lowerQuery)
        matchesType == typeFilter = kwAll \/ note.noteType = typeFilter
    IN  matchesQuery /\ matchesType

\* searchNotes on the list ns.
searchNotes(ns, query, typeFilter) ==
    SelectSeq(ns, LAMBDA note : MatchesSearch(note, query, typeFilter))

\* The body of the forEach callback of getBooksBySearch on one note.  st is
\* [books, threw]; threw is set when the callback raises.
GroupStep(st, note) ==
    LET books1 == IF ~Truthy(GetProp(st.books, note.bookTitle))
                  THEN SetProp(st.books, note.bookTitle, <<>>)
                  ELSE st.books
        group == GetProp(books1, note.bookTitle)
    IN  IF group.type = "Array"
        THEN [books |-> SetProp(books1, note.bookTitle, Append(group.items, note)),
              threw |-> FALSE]
        \* .push is not a function: TypeError
        ELSE [books |-> books1, threw |-> TRUE]

RECURSIVE ForEachNote(_, _, _)
\* filteredNotes.forEach from index i on; a raise ends the loop.
ForEachNote(ns, i, st) ==
    IF i > Len(ns) \/ st.threw THEN st
    ELSE ForEachNote(ns, i + 1, GroupStep(st, ns[i]))

\* What a call that raised gives its caller.
TypeError == [type |-> "TypeError"]

\* getBooksBySearch on the list ns: the object bookGroups, or the TypeError raised.
getBooksBySearch(ns, query, typeFilter) ==
    LET st == ForEachNote(searchNotes(ns, query, typeFilter), 1,
                          [books |-> <<>>, threw |-> FALSE])
    IN  IF st.threw THEN TypeError ELSE [type |-> "Object", props |-> st.books]

-----------------------------------------------------------------------------
(* cleanBookTitle *)

\* The upper-case form of one character.
ToUpperChar(c) ==
    IF \E i \in 1..Len(LowerCase) : LowerCase[i] = c
    THEN UpperCase[CHOOSE i \in 1..Len(LowerCase) : LowerCase[i] = c]
    ELSE c

\* String.prototype.toUpperCase
toUpperCase(s) == [i \in 1..Len(s) |-> ToUpperChar(s[i])]

\* What \w matches.
IsWordChar(c) ==
    \/ c \in Digits
    \/ c = "_"
    \/ \E i \in 1..Len(LowerCase) : LowerCase[i] = c \/ UpperCase[i] = c

\* The assertion \b between s[i - 1] and s[i]: a word character on one side only.
WordBoundary(s, i) ==
    (i > 1 /\ i - 1 <= Len(s) /\ IsWordChar(s[i - 1]))
        # (i >= 1 /\ i <= Len(s) /\ IsWordChar(s[i]))

\* Whether p occurs in s at index i under the flag i (letters compared whatever their case).
StartsWithAtIgnoreCase(s, i, p) ==
    /\ i >= 1
    /\ i + Len(p) - 1 <= Len(s)
    /\ \A k \in 1..Len(p) : ToUpperChar(s[i + k - 1]) = ToUpperChar(p[k])

\* The index after a match of /pub_?/i at index j of s, 0 when there is none.
PubEnd(s, j) ==
    IF StartsWithAtIgnoreCase(s, j, <<"p", "u", "b">>)
    THEN (IF j + 3 <= Len(s) /\ s[j + 3] = "_" THEN j + 4 ELSE j + 3)
    ELSE 0

\* The index after a match of /^name\.?pub_?/i in s, 0 when there is none.
PrefixEnd(s, name) ==
    IF StartsWithAtIgnoreCase(s, 1, name)
    THEN PubEnd(s, IF Len(s) > Len(name) /\ s[Len(name) + 1] = "."
                   THEN Len(name) + 2 ELSE Len(name) + 1)
    ELSE 0

\* s.replace(/^name\.?pub_?/i, '')
StripPrefixEnd(s, e) == IF e = 0 THEN s ELSE SubSeq(s, e, Len(s))
StripPrefix(s, name) == StripPrefixEnd(s, PrefixEnd(s, name))

\* The last index of a match of /\b\d{6,}\b/ that starts at index i of s, 0 when
\* there is none: the whole run of digits, or nothing.
LongNumberEndOfRun(s, i, e) ==
    IF e - i + 1 >= 6 /\ WordBoundary(s, e + 1) THEN e ELSE 0
LongNumberEnd(s, i) ==
    IF s[i] \in Digits /\ WordBoundary(s, i)
    THEN LongNumberEndOfRun(s, i, DigitRunEnd(s, i))
    ELSE 0

RECURSIVE RemoveLongNumbers(_, _)
\* s.replace(/\b\d{6,}\b/g, '') from index i on.
RemoveLongNumbersFrom(s, i, e) ==
    IF e = 0 THEN <<s[i]>> \o RemoveLongNumbers(s, i + 1)
    ELSE RemoveLongNumbers(s, e + 1)
RemoveLongNumbers(s, i) ==
    IF i > Len(s) THEN <<>> ELSE RemoveLongNumbersFrom(s, i, LongNumberEnd(s, i))

IsDash(c) == c \in {"-", "_"}

RECURSIVE DashesToSpace(_, _)
\* s.replace(/[-_]+/g, ' ') from index i on: one space for each run.
DashesToSpace(s, i) ==
    IF i > Len(s) THEN <<>>
    ELSE IF ~IsDash(s[i]) THEN <<s[i]>> \o DashesToSpace(s, i + 1)
    ELSE IF i > 1 /\ IsDash(s[i - 1]) THEN DashesToSpace(s, i + 1)
    ELSE <<SP>> \o DashesToSpace(s, i + 1)

RECURSIVE CollapseWs(_, _)
\* s.replace(/\s+/g, ' ') from index i on: one space for each run.
CollapseWs(s, i) ==
    IF i > Len(s) THEN <<>>
    ELSE IF ~IsWs(s[i]) THEN <<s[i]>> \o CollapseWs(s, i + 1)
    ELSE IF i > 1 /\ IsWs(s[i - 1]) THEN CollapseWs(s, i + 1)
    ELSE <<SP>> \o CollapseWs(s, i + 1)

\* The characters escapeRegex puts a backslash before.
RegexSpecials == {".", "*", "+", "?", "^", "$", "{", "}", "(", ")", "|", "[", "]", "\\"}

RECURSIVE escapeRegex(_)
\* string.replace(/[.*+?^${}()|[\]\\]/g, '\\$&')
escapeRegex(string) ==
    IF string = <<>> THEN <<>>
    ELSE (IF string[1] \in RegexSpecials THEN <<"\\", string[1]>> ELSE <<string[1]>>)
             \o escapeRegex(Tail(string))

RECURSIVE PatternLiteral(_, _)
\* The characters a pattern source of escaped and ordinary characters matches, in order,
\* read from index i: a backslash makes the character after it literal.
PatternLiteral(source, i) ==
    IF i > Len(source) THEN <<>>
    ELSE IF source[i] = "\\" /\ i < Len(source)
         THEN <<source[i + 1]>> \o PatternLiteral(source, i + 2)
         ELSE <<source[i]>> \o PatternLiteral(source, i + 1)

\* The least element of a non-empty set of integers.
MinOf(S) == CHOOSE i \in S : \A j \in S : i <= j

\* s.replace(re, '') for a pattern that ends in $ and matches at the indices in at:
\* the leftmost match goes, and it reaches the end of s.
CutAtFirst(s, at) == IF at = {} THEN s ELSE SubSeq(s, 1, MinOf(at) - 1)

\* Whether new RegExp('\\b' + source + '\\b\\s*$', 'i') matches s at index i,
\* lit being the characters the source matches.
EndMatchAt(s, i, lit) ==
    /\ WordBoundary(s, i)
    /\ StartsWithAtIgnoreCase(s, i, lit)
    /\ WordBoundary(s, i + Len(lit))
    /\ SkipWs(s, i + Len(lit)) > Len(s)

\* s.replace(new RegExp('\\b' + source + '\\b\\s*$', 'i'), '').trim()
RemoveLiteralAtEnd(s, lit) ==
    Trim(CutAtFirst(s, {i \in 1..Len(s) : EndMatchAt(s, i, lit)}))
RemoveAtEnd(s, source) == RemoveLiteralAtEnd(s, PatternLiteral(source, 1))

RECURSIVE SplitWs(_)
\* String.prototype.split(/\s+/)
SplitWsAt(s, i) ==
    IF i > Len(s) THEN <<s>>
    ELSE <<SubSeq(s, 1, i - 1)>> \o SplitWs(SubSeq(s, SkipWs(s, i), Len(s)))
SplitWs(s) ==
    SplitWsAt(s, IF \E k \in 1..Len(s) : IsWs(s[k])
                 THEN MinOf({k \in 1..Len(s) : IsWs(s[k])}) ELSE Len(s) + 1)

RECURSIVE RemoveAuthorWordsAnyLength(_, _, _)
\* authorWords.forEach without the test of the length of the word.
RemoveAuthorWordsAnyLength(cleanTitle, authorWords, k) ==
    IF k > Len(authorWords) THEN cleanTitle
    ELSE RemoveAuthorWordsAnyLength(RemoveAtEnd(cleanTitle, escapeRegex(authorWords[k])),
                                    authorWords, k + 1)

RECURSIVE RemoveAuthorWords(_, _, _)
\* authorWords.forEach from the k-th word on: every word of more than two
\* characters is taken off the end of cleanTitle, one after the other.
RemoveAuthorWords(cleanTitle, authorWords, k) ==
    IF k > Len(authorWords) THEN cleanTitle
    ELSE RemoveAuthorWords(IF Len(authorWords[k]) > 2
                           THEN RemoveAtEnd(cleanTitle, escapeRegex(authorWords[k]))
                           ELSE cleanTitle,
                           authorWords, k + 1)

\* Whether /\s*\([^)]*\)\s*$/ matches s at index i: blanks, an opening parenthesis
\* at j, the first closing one after it at q, blanks to the end.
ParenCloses(s, q) == q # 0 /\ SkipWs(s, q + 1) > Len(s)
ParenOpens(s, j) == j <= Len(s) /\ s[j] = "(" /\ ParenCloses(s, IndexOf(s, <<")">>, j + 1))
ParenMatchAt(s, i) == ParenOpens(s, SkipWs(s, i))

\* s.replace(/\s*\([^)]*\)\s*$/g, '').trim()
RemoveParenthetical(s) == Trim(CutAtFirst(s, {i \in 1..Len(s) : ParenMatchAt(s, i)}))

\* The block run for an author that is neither empty nor blank.
RemoveAuthor(cleanTitle, author) ==
    RemoveParenthetical(
        RemoveAuthorWords(RemoveAtEnd(cleanTitle, escapeRegex(Trim(author))),
                          SplitWs(Trim(author)), 1))

\* The alternatives of the suffix pattern.
EditionSuffixes ==
    { <<"s", "e", "c", "o", "n", "d", SP, "e", "d", "i", "t", "i", "o", "n">>,
      <<"f", "i", "r", "s", "t", SP, "e", "d", "i", "t", "i", "o", "n">>,
      <<"r", "e", "v", "i", "s", "e", "d">>,
      <<"u", "p", "d", "a", "t", "e", "d">> }

\* Whether /\s*(second edition|first edition|revised|updated)\s*$/i matches s at index i:
\* blanks, an alternative at j, blanks to the end.
SuffixAt(s, j) ==
    \E alt \in EditionSuffixes :
        StartsWithAtIgnoreCase(s, j, alt) /\ SkipWs(s, j + Len(alt)) > Len(s)
SuffixMatchAt(s, i) == SuffixAt(s, SkipWs(s, i))

\* s.replace(/\s*(second edition|first edition|revised|updated)\s*$/i, '')
RemoveEditionSuffix(s) == CutAtFirst(s, {i \in 1..Len(s) : SuffixMatchAt(s, i)})

RECURSIVE SkipPunctBack(_, _)
\* The last index <= i of s that holds none of - _ . (0 when none).
SkipPunctBack(s, i) ==
    IF i >= 1 /\ s[i] \in {"-", "_", "."} THEN SkipPunctBack(s, i - 1) ELSE i

\* s.replace(/[-_.]+$/, '').trim()
RemoveTrailingPunctuation(s) == Trim(SubSeq(s, 1, SkipPunctBack(s, Len(s))))

\* The words that stay in lower case after the first word.
SmallWords ==
    { <<"t", "h", "e">>, <<"a">>, <<"a", "n">>, <<"a", "n", "d">>, <<"o", "r">>,
      <<"b", "u", "t">>, <<"i", "n">>, <<"o", "n">>, <<"a", "t">>, <<"t", "o">>,
      <<"f", "o", "r">>, <<"o", "f">>, <<"w", "i", "t", "h">>, <<"b", "y">> }

\* word.charAt(0).toUpperCase() + word.slice(1).toLowerCase()
CapitalizeWord(word) ==
    IF word = <<>> THEN <<>>
    ELSE <<ToUpperChar(word[1])>> \o toLowerCase(Tail(word))

\* The callback of words.map
CapitalizeAt(word, index) ==
    IF index = 0 \/ toLowerCase(word) \notin SmallWords
    THEN CapitalizeWord(word)
    ELSE toLowerCase(word)

\* words.map(...).join(' ')
CapitalizeWords(words) ==
    Join([k \in 1..Len(words) |-> CapitalizeAt(words[k], k - 1)], <<SP>>)

\* The capitalisation, run for a title that is not empty.
Capitalize(cleanTitle) ==
    IF cleanTitle = <<>> THEN cleanTitle ELSE CapitalizeWords(SplitWs(cleanTitle))

\* The steps before the author: prefixes, long numbers, hyphens and underscores, blanks.
\* The hyphens and underscores are replaced before the long numbers are looked for.
NormalizeDashesFirst(bookTitle) ==
    Trim(CollapseWs(
        RemoveLongNumbers(
            DashesToSpace(
                StripPrefix(StripPrefix(bookTitle, <<"v", "d", "o", "c">>),
                            <<"d", "o", "k", "u", "m", "e", "n">>), 1), 1), 1))

\* The steps before the author: prefixes, long numbers, hyphens and underscores, blanks.
Normalize(bookTitle) ==
    Trim(CollapseWs(
        DashesToSpace(
            RemoveLongNumbers(
                StripPrefix(StripPrefix(bookTitle, <<"v", "d", "o", "c">>),
                            <<"d", "o", "k", "u", "m", "e", "n">>), 1), 1), 1))

\* The author block, run or skipped.
WithoutAuthor(cleanTitle, author) ==
    IF author # <<>> /\ Trim(author) # <<>>
    THEN RemoveAuthor(cleanTitle, author)
    ELSE cleanTitle

\* cleanTitle || bookTitle that gives cleanTitle whatever it is.
OrElseNothing(cleanTitle, bookTitle) == cleanTitle

\* cleanTitle || bookTitle
OrElse(cleanTitle, bookTitle) == IF cleanTitle = <<>> THEN bookTitle ELSE cleanTitle

\* cleanTitle when the return statement is reached.
CleanedTitle(bookTitle, author) ==
    Capitalize(
        RemoveTrailingPunctuation(
            RemoveEditionSuffix(WithoutAuthor(Normalize(bookTitle), author))))

\* cleanBookTitle for a title and an author that are strings.
cleanBookTitle(bookTitle, author) == OrElse(CleanedTitle(bookTitle, author), bookTitle)

-----------------------------------------------------------------------------
(* Inputs *)

RECURSIVE Flatten(_)
\* The concatenation of a sequence of strings.
Flatten(ss) == IF ss = <<>> THEN <<>> ELSE ss[1] \o Flatten(Tail(ss))

\* The sequences of at most n elements of S.
SeqsUpTo(S, n) == UNION {[1..k -> S] : k \in 0..n}

lineTitleAB == <<"A", SP, "(", "B", ")">>
lineTitleA == <<"A">>
lineTitleCtor == <<"c", "o", "n", "s", "t", "r", "u", "c", "t", "o", "r">>
lineMetaFull == <<"H", "i", "g", "h", "l", "i", "g", "h", "t", SP, "L", "o", "c", "a", "t", "i", "o", "n", SP, "1", "2", "-", "3", SP, "p", "a", "g", "e", SP, "4", SP, "A", "d", "d", "e", "d", SP, "o", "n", SP, "2", "0", "2", "4">>
lineMetaNote == <<"N", "o", "t", "e">>
lineMetaBad == <<"B", "o", "o", "k", "m", "a", "r", "k", SP, "A", "d", "d", "e", "d", SP, "o", "n", SP, "x", "y", "z">>
lineBody == <<"h", "i">>
dateYear == <<"2", "0", "2", "4">>
dateBad == <<"x", "y", "z">>
lineTitle1984 == <<"1", "9", "8", "4">>
lineMetaLocation == <<"L", "o", "c", "a", "t", "i", "o", "n", SP, "7">>
lineTitleDeepWork ==
    <<"D", "e", "e", "p", SP, "W", "o", "r", "k", SP, "(", "C", "a", "l", SP,
    "N", "e", "w", "p", "o", "r", "t", ")">>
lineMetaDeepWork1 ==
    <<"-", SP, "Y", "o", "u", "r", SP, "H", "i", "g", "h", "l", "i", "g",
    "h", "t", SP, "o", "n", SP, "L", "o", "c", "a", "t", "i", "o", "n", SP,
    "1", "5", "0", "-", "1", "5", "2", SP, "|", SP, "A", "d", "d", "e", "d",
    SP, "o", "n", SP, "M", "o", "n", "d", "a", "y", ",", SP, "J", "a", "n",
    "u", "a", "r", "y", SP, "1", ",", SP, "2", "0", "2", "4", SP, "1", "2",
    ":", "0", "0", ":", "0", "0", SP, "P", "M">>
lineBodyDeepWork ==
    <<"F", "o", "c", "u", "s", SP, "i", "s", SP, "t", "h", "e", SP, "n", "e",
    "w", SP, "I", "Q", ".">>
lineMetaDeepWork2 ==
    <<"-", SP, "Y", "o", "u", "r", SP, "B", "o", "o", "k", "m", "a", "r",
    "k", SP, "o", "n", SP, "L", "o", "c", "a", "t", "i", "o", "n", SP, "3",
    "0", "0", SP, "|", SP, "A", "d", "d", "e", "d", SP, "o", "n", SP, "M",
    "o", "n", "d", "a", "y", ",", SP, "J", "a", "n", "u", "a", "r", "y", SP,
    "1", ",", SP, "2", "0", "2", "4", SP, "1", ":", "0", "0", ":", "0", "0",
    SP, "P", "M">>

\* The text between two delimiters: a full entry with a blank line and a body;
\* an entry of the same title without author and date; an entry whose title is
\* a name of Object.prototype; a lone title line; a blank stretch; an entry
\* with a byte-order mark, CR LF line ends and a date that does not parse; an
\* entry whose title is a number and whose metadata line has no keyword.
EntryTexts ==
    { lineTitleAB \o <<NL>> \o lineMetaFull \o <<NL, NL>> \o lineBody \o <<NL>>,
      lineTitleA \o <<NL>> \o lineMetaNote,
      lineTitleCtor \o <<NL>> \o lineMetaNote \o <<NL>>,
      lineTitleAB,
      <<NL, SP>>,
      <<BOM>> \o lineTitleAB \o <<CR, NL>> \o lineMetaBad \o <<CR, NL>>,
      lineTitle1984 \o <<NL>> \o lineMetaLocation }

\* A file of two entries of one book, each followed by the delimiter: a
\* highlight with a body behind a blank line, and a bookmark without a body.
DeepWorkInput ==
    lineTitleDeepWork \o <<NL>> \o lineMetaDeepWork1 \o <<NL, NL>> \o lineBodyDeepWork
        \o <<NL>> \o SEPARATOR \o <<NL>>
        \o lineTitleDeepWork \o <<NL>> \o lineMetaDeepWork2 \o <<NL>> \o SEPARATOR \o <<NL>>

\* The file contents given to parseFile: up to MaxEntries entry texts with the
\* delimiter between them.
Documents ==
    {Join(es, SEPARATOR) : es \in SeqsUpTo(EntryTexts, MaxEntries)} \cup {DeepWorkInput}

\* The entries of the files that are parsed and then queried.
QueriedEntryTexts ==
    { lineTitleAB \o <<NL>> \o lineMetaFull \o <<NL, NL>> \o lineBody \o <<NL>>,
      lineTitleA \o <<NL>> \o lineMetaNote,
      lineTitleCtor \o <<NL>> \o lineMetaNote \o <<NL>>,
      lineTitle1984 \o <<NL>> \o lineMetaLocation }

\* The files that are parsed and then queried.
QueriedDocuments ==
    {Join(es, SEPARATOR) : es \in SeqsUpTo(QueriedEntryTexts, MaxEntries)} \cup {DeepWorkInput}

\* The texts typed into the search box: nothing, a title in the other case,
\* an author in the other case, a body in upper case, a part of "Unknown", a
\* digit of a title, a word of the two-entry file.
SearchQueries ==
    { <<>>, <<"a">>, <<"b">>, <<"H", "I">>, <<"n", "o">>, <<"9">>, <<"f", "o", "c", "u", "s">> }

\* The values of the type filter.
TypeFilters == {kwAll, kwHighlight, kwBookmark, kwNote}

\* The first lines given to parseTitleAuthor: parseEntry passes a trimmed,
\* non-empty line.
TitleAlphabet == {"a", SP, "(", ")"}

TitleLines ==
    {l \in SeqsUpTo(TitleAlphabet, MaxTitleLen) : l # <<>> /\ Trim(l) = l}

\* The entries given to parseEntry: parseFile passes a trimmed, non-empty entry.
EntryAlphabet == {"a", SP, NL, "(", ")", BOM}

EntryInputs ==
    {e \in SeqsUpTo(EntryAlphabet, MaxEntryLen) : e # <<>> /\ Trim(e) = e}

\* The second lines given to parseMetadata: up to MaxMetaAtoms atoms, then
\* possibly an "Added on" clause; trimmed and non-empty, as parseEntry passes them.
MetaAtoms ==
    { kwHighlight, kwBookmark, kwNote, <<"n", "o", "t", "e">>, <<SP>>,
      kwLocation, kwPage, <<"7">>, <<"1", "2">>, <<"-">> }

MetaEndings == {<<>>, kwAddedOn, kwAddedOn \o dateYear, kwAddedOn \o dateBad}

MetaLines ==
    {l \in {Trim(Flatten(as) \o e) : as \in SeqsUpTo(MetaAtoms, MaxMetaAtoms), e \in MetaEndings} :
        l # <<>>}

-----------------------------------------------------------------------------
(* The application (KindleNotesApp): validations and the page *)

\* maxSize of validateFile: 50 * 1024 * 1024 bytes.
MaxFileSize == 52428800

\* The smallest file size validateFile accepts, in bytes.
MinFileSize == 100

\* The fewest non-blank lines validateContent accepts.
MinLines == 3

kwDotTxt == <<".", "t", "x", "t">>

kwRead == <<"r", "e", "a", "d">>

\* String.prototype.endsWith
EndsWith(s, p) == Len(p) <= Len(s) /\ StartsWithAt(s, Len(s) - Len(p) + 1, p)

\* validateFile(file): the title of the error it returns, "valid" when it
\* returns { valid: true }.
validateFile(file) ==
    IF file = Null THEN "No File Selected"
    ELSE IF ~EndsWith(toLowerCase(file.name), kwDotTxt) THEN "Invalid File Type"
    ELSE IF file.size > MaxFileSize THEN "File Size Limit Exceeded"
    ELSE IF file.size = 0 THEN "Empty File"
    ELSE IF file.size < MinFileSize THEN "File Too Small"
    ELSE "valid"

\* validateContent that accepts every text.
validateContentAlwaysValid(text) == "valid"

\* validateContent(content): the title of the error it returns, "valid" when
\* it returns valid (the warning it may attach then is shown as a
\* notification of its own and changes nothing else).
validateContent(text) ==
    IF Trim(text) = <<>> THEN "Empty File Content"
    ELSE IF ~Includes(text, SEPARATOR) THEN "Invalid File Format"
    ELSE IF Len(SelectSeq(Split(text, <<NL>>), LAMBDA line : Trim(line) # <<>>)) < MinLines
    THEN "Insufficient Content"
    ELSE "valid"

\* The message of the Error readFile rejects with, by the name of the error
\* of the FileReader.
msgNotReadable ==
    <<"T", "h", "e", SP, "f", "i", "l", "e", SP, "c", "o", "u", "l", "d", SP,
      "n", "o", "t", SP, "b", "e", SP, "r", "e", "a", "d", ".", SP, "I", "t",
      SP, "m", "a", "y", SP, "b", "e", SP, "c", "o", "r", "r", "u", "p", "t",
      "e", "d", SP, "o", "r", SP, "l", "o", "c", "k", "e", "d", SP, "b", "y",
      SP, "a", "n", "o", "t", "h", "e", "r", SP, "a", "p", "p", "l", "i", "c",
      "a", "t", "i", "o", "n", ".">>

msgSecurity ==
    <<"A", "c", "c", "e", "s", "s", SP, "t", "o", SP, "t", "h", "e", SP, "f",
      "i", "l", "e", SP, "w", "a", "s", SP, "d", "e", "n", "i", "e", "d", SP,
      "f", "o", "r", SP, "s", "e", "c", "u", "r", "i", "t", "y", SP, "r", "e",
      "a", "s", "o", "n", "s", ".">>

msgPushNotFunction ==
    <<"t", "h", "i", "s", ".", "b", "o", "o", "k", "s", "[", "n", "o", "t",
      "e", ".", "b", "o", "o", "k", "T", "i", "t", "l", "e", "]", ".", "p",
      "u", "s", "h", SP, "i", "s", SP, "n", "o", "t", SP, "a", SP, "f", "u",
      "n", "c", "t", "i", "o", "n">>

\* The Error readFile rejects with when the FileReader fails with an error of
\* the given name: a plain Error, whose name is "Error".
ReadError(name) ==
    [name |-> "Error",
     message |-> IF name = "NotReadableError" THEN msgNotReadable ELSE msgSecurity]

\* The title of the error notification the catch block of handleFile shows
\* for an error; "" when it shows a warning instead.
CatchTitle(error) ==
    IF error.name = "NotReadableError" \/ Includes(error.message, kwRead)
    THEN "File Reading Error"
    ELSE IF error.name = "SecurityError" THEN "Security Error"
    ELSE IF error.name = "AbortError" THEN ""
    ELSE "Processing Error"

\* The page after construction: the upload area alone is displayed, the form
\* fields hold their defaults (fileInput is the file chosen in the file input,
\* null while its value is ''), nothing is rendered and no error is shown.
InitialUi ==
    [uploadArea |-> TRUE, loading |-> FALSE, statsCard |-> FALSE, controls |-> FALSE,
     results |-> FALSE, notesView |-> FALSE, searchBox |-> <<>>, typeFilter |-> kwAll,
     fileInput |-> Null, statsGrid |-> Undefined, booksGrid |-> <<>>, notesOf |-> <<>>,
     lastError |-> ""]

\* The PDF export after construction: window.jspdf is undefined and no
\* request was made.
InitialPdf == [jspdf |-> FALSE, requests |-> <<>>]

\* showError(message, title): the error notification on the page.
showError(u, title) == [u EXCEPT !.lastError = title]

\* clearNotifications()
clearNotifications(u) == [u EXCEPT !.lastError = ""]

\* hideResults()
hideResults(u) ==
    [u EXCEPT !.statsCard = FALSE, !.controls = FALSE, !.results = FALSE, !.notesView = FALSE]

\* showLoading()
showLoading(u) == hideResults([u EXCEPT !.uploadArea = FALSE, !.loading = TRUE])

\* hideLoading that leaves the loading indicator as it is.
hideLoadingNot(u) == u

\* hideLoading()
hideLoading(u) == [u EXCEPT !.loading = FALSE, !.uploadArea = TRUE]

\* showResults()
showResults(u) == [u EXCEPT !.controls = TRUE, !.results = TRUE, !.notesView = FALSE]

\* showNotesView()
showNotesView(u) == [u EXCEPT !.results = FALSE, !.notesView = TRUE]

\* displayStatistics(): the statistics card shows the numbers of getStatistics.
displayStatistics(u, ns, bs) ==
    [u EXCEPT !.statsCard = TRUE, !.statsGrid = getStatistics(ns, bs)]

\* Object.entries(books).sort((a, b) => b[1].length - a[1].length): the
\* groups by falling size, groups of one size in their order of enumeration.
SortedByCount(bs) ==
    LET rank(i) ==
            Cardinality({j \in 1..Len(bs) :
                \/ Len(bs[j].value) > Len(bs[i].value)
                \/ Len(bs[j].value) = Len(bs[i].value) /\ j < i}) + 1
    IN  [r \in 1..Len(bs) |-> bs[CHOOSE i \in 1..Len(bs) : rank(i) = r]]

\* displayBooks(books): one card per group, with its title and its number of
\* Records; no card for no group.
displayBooks(u, bs) ==
    [u EXCEPT !.booksGrid =
        [r \in 1..Len(bs) |->
            [title |-> SortedByCount(bs)[r].key, total |-> Len(SortedByCount(bs)[r].value)]]]

\* displayResults()
displayResults(u, ns, bs) ==
    showResults(displayBooks(displayStatistics(hideLoading(u), ns, bs), bs))

\* reset(): the page after it.
reset(u) ==
    [hideResults(u) EXCEPT !.uploadArea = TRUE, !.searchBox = <<>>, !.typeFilter = kwAll,
                           !.fileInput = Null]

-----------------------------------------------------------------------------
(* The parser as a state machine *)

\* The state after new KindleNotesParser().
Init ==
    /\ notes = <<>>
    /\ books = <<>>
    /\ threw = FALSE
    /\ content = <<>>
    /\ parsed = FALSE
    /\ now = 0
    /\ parsedAt = 0
    /\ sameTextAt = -1
    /\ fnArg = [op |-> "constructor"]
    /\ fnRes = <<>>
    /\ fnDone = FALSE
    /\ ui = InitialUi
    /\ reads = EmptyBag
    /\ pdf = InitialPdf

\* parseFile on every input of the model and at every clock, computed once.
parseFileTable == [text \in Documents, t \in 0..MaxClock |-> parseFile(text, t)]

\* parseFile without lines 20-21: the list and the grouping are not cleared.
CallParseFileNoReset(text) ==
    /\ \E st \in {parseFileTable[text, now]} :
           /\ notes' = notes \o st.notes
           /\ books' = books \o st.books
           /\ threw' = st.threw
    /\ content' = text
    /\ parsed' = TRUE
    /\ parsedAt' = now
    /\ sameTextAt' = IF parsed /\ text = content THEN parsedAt ELSE -1
    /\ fnArg' = [op |-> "parseFile"]
    /\ fnRes' = Undefined
    /\ fnDone' = TRUE
    /\ UNCHANGED <<now, ui, reads, pdf>>

\* parser.parseFile(text)
CallParseFile(text) ==
    /\ \E st \in {parseFileTable[text, now]} :
           /\ notes' = st.notes
           /\ books' = st.books
           /\ threw' = st.threw
    /\ content' = text
    /\ parsed' = TRUE
    /\ parsedAt' = now
    /\ sameTextAt' = IF parsed /\ text = content THEN parsedAt ELSE -1
    /\ fnArg' = [op |-> "parseFile"]
    /\ fnRes' = Undefined
    /\ fnDone' = TRUE
    /\ UNCHANGED <<now, ui, reads, pdf>>

\* Time passes between two calls.
Tick ==
    /\ now < MaxClock
    /\ now' = now + 1
    /\ UNCHANGED <<notes, books, threw, content, parsed, parsedAt, sameTextAt, fnArg, fnRes, fnDone, ui, reads, pdf>>

Next ==
    \/ \E text \in Documents : CallParseFile(text)
    \/ Tick

Spec == Init /\ [][Next]_vars

-----------------------------------------------------------------------------
(* The parser with its query operations *)

\* parser.searchNotes(query, typeFilter)
CallSearchNotes(query, typeFilter) ==
    /\ fnArg' = [op |-> "searchNotes", query |-> query, typeFilter |-> typeFilter]
    /\ fnRes' = searchNotes(notes, query, typeFilter)
    /\ fnDone' = TRUE
    /\ UNCHANGED <<notes, books, threw, content, parsed, now, parsedAt, sameTextAt, ui, reads, pdf>>

\* parser.getBooksBySearch(query, typeFilter)
CallGetBooksBySearch(query, typeFilter) ==
    /\ fnArg' = [op |-> "getBooksBySearch", query |-> query, typeFilter |-> typeFilter]
    /\ fnRes' = getBooksBySearch(notes, query, typeFilter)
    /\ fnDone' = TRUE
    /\ UNCHANGED <<notes, books, threw, content, parsed, now, parsedAt, sameTextAt, ui, reads, pdf>>

\* parser.getStatistics()
CallGetStatistics ==
    /\ fnArg' = [op |-> "getStatistics"]
    /\ fnRes' = getStatistics(notes, books)
    /\ fnDone' = TRUE
    /\ UNCHANGED <<notes, books, threw, content, parsed, now, parsedAt, sameTextAt, ui, reads, pdf>>

\* parser.sortNotesByLocation(parser.books[bookTitle]), as showBookNotes calls
\* it for the i-th book shown: the group is sorted in place and returned.
CallShowBookNotes(i) ==
    /\ i \in 1..Len(books)
    /\ fnArg' = [op |-> "sortNotesByLocation", bookTitle |-> books[i].key]
    /\ fnRes' = sortNotesByLocation(books[i].value)
    /\ books' = [books EXCEPT ![i].value = fnRes']
    /\ fnDone' = TRUE
    /\ UNCHANGED <<notes, threw, content, parsed, now, parsedAt, sameTextAt, ui, reads, pdf>>

\* The values given to parseFile that are no strings.
NonStrings == {Null, Undefined, [type |-> "number", value |-> 7]}

\* parseFile that empties the list and the grouping before it splits its argument.
parseFileOfNonStringResetFirst(st, v) ==
    [notes |-> <<>>, books |-> <<>>, threw |-> st.threw, raised |-> TRUE]

\* parseFile(v) for a v that is no string, in the parser state st: content.split
\* raises a TypeError (null and undefined have no properties, a number has no
\* method split) before the list and the grouping are assigned.
parseFileOfNonString(st, v) ==
    [notes |-> st.notes, books |-> st.books, threw |-> st.threw, raised |-> TRUE]

\* parser.parseFile(v) for a v that is no string.
CallParseFileNonString(v) ==
    /\ \E st \in {parseFileOfNonString([notes |-> notes, books |-> books, threw |-> threw], v)} :
           /\ notes' = st.notes
           /\ books' = st.books
           /\ threw' = st.threw
           /\ fnRes' = IF st.raised THEN TypeError ELSE Undefined
    /\ fnArg' = [op |-> "parseFileNonString", input |-> v]
    /\ fnDone' = TRUE
    /\ UNCHANGED <<content, parsed, now, parsedAt, sameTextAt, ui, reads, pdf>>

\* parser.cleanBookTitle(n.bookTitle, n.author), as the export calls it for the
\* k-th Record of the list.
CallCleanBookTitleOf(k) ==
    /\ k \in 1..Len(notes)
    /\ fnArg' = [op |-> "cleanBookTitle", bookTitle |-> notes[k].bookTitle,
                 author |-> notes[k].author]
    /\ fnRes' = cleanBookTitle(notes[k].bookTitle, notes[k].author)
    /\ fnDone' = TRUE
    /\ UNCHANGED <<notes, books, threw, content, parsed, now, parsedAt, sameTextAt, ui, reads, pdf>>

NextEngine ==
    \/ \E text \in QueriedDocuments : CallParseFile(text)
    \/ \E query \in SearchQueries, typeFilter \in TypeFilters : CallSearchNotes(query, typeFilter)
    \/ \E query \in SearchQueries, typeFilter \in TypeFilters : CallGetBooksBySearch(query, typeFilter)
    \/ CallGetStatistics
    \/ \E i \in 1..MaxEntries : CallShowBookNotes(i)
    \/ \E k \in 1..MaxEntries : CallCleanBookTitleOf(k)
    \/ \E v \in NonStrings : CallParseFileNonString(v)

SpecEngine == Init /\ [][NextEngine]_vars

-----------------------------------------------------------------------------
(* parseTitleAuthor alone, on every first line *)

InitTitle ==
    /\ fnArg \in TitleLines
    /\ fnRes = <<>>
    /\ fnDone = FALSE
    /\ ui = InitialUi
    /\ reads = EmptyBag
    /\ pdf = InitialPdf
    /\ notes = <<>> /\ books = <<>> /\ threw = FALSE /\ content = <<>>
    /\ parsed = FALSE /\ now = 0 /\ parsedAt = 0 /\ sameTextAt = -1

CallParseTitleAuthor ==
    /\ ~fnDone
    /\ fnRes' = parseTitleAuthor(fnArg)
    /\ fnDone' = TRUE
    /\ UNCHANGED <<notes, books, threw, content, parsed, now, parsedAt, sameTextAt, fnArg, ui, reads, pdf>>

NextTitle == CallParseTitleAuthor

SpecTitle == InitTitle /\ [][NextTitle]_vars

-----------------------------------------------------------------------------
(* parseMetadata alone, on every second line and at every clock *)

InitMeta ==
    /\ fnArg \in MetaLines
    /\ now \in 0..MaxClock
    /\ fnRes = <<>>
    /\ fnDone = FALSE
    /\ ui = InitialUi
    /\ reads = EmptyBag
    /\ pdf = InitialPdf
    /\ notes = <<>> /\ books = <<>> /\ threw = FALSE /\ content = <<>>
    /\ parsed = FALSE /\ parsedAt = 0 /\ sameTextAt = -1

CallParseMetadata ==
    /\ ~fnDone
    /\ fnRes' = parseMetadata(fnArg, now)
    /\ fnDone' = TRUE
    /\ UNCHANGED <<notes, books, threw, content, parsed, now, parsedAt, sameTextAt, fnArg, ui, reads, pdf>>

NextMeta == CallParseMetadata

SpecMeta == InitMeta /\ [][NextMeta]_vars


-----------------------------------------------------------------------------
(* parseEntry alone, on every entry *)

InitEntry ==
    /\ fnArg \in EntryInputs
    /\ fnRes = <<>>
    /\ fnDone = FALSE
    /\ ui = InitialUi
    /\ reads = EmptyBag
    /\ pdf = InitialPdf
    /\ notes = <<>> /\ books = <<>> /\ threw = FALSE /\ content = <<>>
    /\ parsed = FALSE /\ now = 0 /\ parsedAt = 0 /\ sameTextAt = -1

CallParseEntry ==
    /\ ~fnDone
    /\ fnRes' = parseEntry(fnArg, now)
    /\ fnDone' = TRUE
    /\ UNCHANGED <<notes, books, threw, content, parsed, now, parsedAt, sameTextAt, fnArg, ui, reads, pdf>>

NextEntry == CallParseEntry

SpecEntry == InitEntry /\ [][NextEntry]_vars


-----------------------------------------------------------------------------
(* sortNotesByLocation alone, on every short array of Records *)

\* The locations of the Records given to the sort: the shapes parseMetadata
\* produces (empty, digits, digits-digits), and two it does not (no digit, a
\* digit run behind a letter).
SortLocations ==
    { <<>>, <<"2">>, <<"1", "0">>, <<"1", "0", "-", "2", "0">>, <<"0", "7">>,
      <<"-">>, <<"L", "3">> }

SortRecords ==
    {KindleNote(lineTitleA, kwUnknown, kwNote, l, Null, ValidDate(0), <<>>) : l \in SortLocations}

SortInputs == SeqsUpTo(SortRecords, MaxSortLen)

\* notes is the array given to the sort, fnArg what it held before the call.
InitSort ==
    /\ notes \in SortInputs
    /\ fnArg = notes
    /\ fnRes = <<>>
    /\ fnDone = FALSE
    /\ ui = InitialUi
    /\ reads = EmptyBag
    /\ pdf = InitialPdf
    /\ books = <<>> /\ threw = FALSE /\ content = <<>>
    /\ parsed = FALSE /\ now = 0 /\ parsedAt = 0 /\ sameTextAt = -1

\* parser.sortNotesByLocation(notes): sorts the array in place and returns it.
CallSortNotesByLocation ==
    /\ ~fnDone
    /\ notes' = sortNotesByLocation(notes)
    /\ fnRes' = notes'
    /\ fnDone' = TRUE
    /\ UNCHANGED <<books, threw, content, parsed, now, parsedAt, sameTextAt, fnArg, ui, reads, pdf>>

NextSort == CallSortNotesByLocation

SpecSort == InitSort /\ [][NextSort]_vars

-----------------------------------------------------------------------------
(* cleanBookTitle alone, on titles made of a few pieces *)

\* The pieces of the titles: a letter, the characters the steps look for, a
\* number of six digits, a prefix, an edition word, two words of authors' names
\* and a parenthetical.
CleanAtoms ==
    { <<"a">>,
      <<SP>>,
      <<"_">>,
      <<".">>,
      <<"0", "1", "2", "3", "4", "5">>,
      <<"v", "d", "o", "c", ".", "p", "u", "b">>,
      <<SP, "r", "e", "v", "i", "s", "e", "d">>,
      <<SP, "b", "o", "b">>,
      <<SP, "r", "a", "y">>,
      <<"(", "b", ")">> }

titleGreatExpectations ==
    <<"d", "o", "k", "u", "m", "e", "n", ".", "p", "u", "b", "_", "g", "r", "e", "a", "t", "-",
       "e", "x", "p", "e", "c", "t", "a", "t", "i", "o", "n", "s",
       "-", "0", "1", "2", "3", "4", "5", "6", "7", "8", "9">>
authorCharlesDickens == <<"C", "h", "a", "r", "l", "e", "s", SP, "D", "i", "c", "k", "e", "n", "s">>
titleBobRay == <<"b", "o", "b", "-", SP, "r", "a", "y">>
authorBobRay == <<"B", "o", "b", SP, "R", "a", "y">>
authorARay == <<"A", SP, "R", "a", "y">>
titleATheDot == <<"a", SP, "t", "h", "e", ".">>

CleanTitles ==
    {Flatten(ss) : ss \in SeqsUpTo(CleanAtoms, MaxCleanAtoms)}
        \cup {titleGreatExpectations, authorCharlesDickens, titleBobRay, titleATheDot}

CleanAuthors == {<<>>, <<"b", "o", "b">>, authorBobRay, authorARay, authorCharlesDickens}

\* fnArg is the pair of arguments of the call, fnRes what it returned.
InitClean ==
    /\ fnArg \in [bookTitle : CleanTitles, author : CleanAuthors]
    /\ fnRes = <<>>
    /\ fnDone = FALSE
    /\ ui = InitialUi
    /\ reads = EmptyBag
    /\ pdf = InitialPdf
    /\ notes = <<>> /\ books = <<>> /\ threw = FALSE /\ content = <<>>
    /\ parsed = FALSE /\ now = 0 /\ parsedAt = 0 /\ sameTextAt = -1

\* parser.cleanBookTitle(bookTitle, author)
CallCleanBookTitle ==
    /\ ~fnDone
    /\ fnRes' = cleanBookTitle(fnArg.bookTitle, fnArg.author)
    /\ fnDone' = TRUE
    /\ UNCHANGED <<notes, books, threw, content, parsed, now, parsedAt, sameTextAt, fnArg, ui, reads, pdf>>

NextClean == CallCleanBookTitle

SpecClean == InitClean /\ [][NextClean]_vars

-----------------------------------------------------------------------------
(* The application as a state machine *)

\* The most handleFile runs that await their file at one time.
MaxPending == 2

\* The most PDF export requests made while the library is not loaded.
MaxPdfRequests == 1

nameTxt == <<"a", ".", "t", "x", "t">>

nameUpperTxt == <<"B", ".", "T", "X", "T">>

namePdf == <<"a", ".", "p", "d", "f">>

\* s repeated n times.
Repeat(s, n) == [i \in 1..(n * Len(s)) |-> s[((i - 1) % Len(s)) + 1]]

\* A readable file: its size is the length of its text.
FileOf(name, text) == [name |-> name, size |-> Len(text), text |-> text, error |-> ""]

\* Two entries of two books, the first with two Records.
textTwoBooks ==
    lineTitleAB \o <<NL>> \o lineMetaFull \o <<NL>> \o lineBody \o <<NL>> \o SEPARATOR \o <<NL>>
        \o lineTitleA \o <<NL>> \o lineMetaLocation \o <<NL>> \o lineBody \o <<NL>>
        \o SEPARATOR \o <<NL>>
        \o lineTitleAB \o <<NL>> \o lineMetaNote \o <<NL>> \o lineBody \o <<NL>>
        \o SEPARATOR \o <<NL>>

\* No file at all.
fileMissing == Null

filePdf == FileOf(namePdf, DeepWorkInput)

\* A file above 50 MB; its text is never read.
fileTooLarge == [name |-> nameTxt, size |-> MaxFileSize + 1, text |-> <<>>, error |-> ""]

fileEmpty == FileOf(nameTxt, <<>>)

\* One entry, shorter than 100 bytes.
fileTooSmall ==
    FileOf(nameTxt, lineTitleA \o <<NL>> \o lineMetaNote \o <<NL>> \o SEPARATOR \o <<NL>>)

fileBlank == FileOf(nameTxt, Repeat(<<SP>>, MinFileSize))

fileNoDelimiter == FileOf(nameTxt, Repeat(<<"a", NL>>, 50))

\* The delimiter and blanks: one non-blank line.
fileFewLines == FileOf(nameTxt, SEPARATOR \o Repeat(<<SP>>, 90))

\* Eight entries of one line each: none of them gives a Record.
fileNoRecords == FileOf(nameTxt, Repeat(<<"a", NL>> \o SEPARATOR \o <<NL>>, 8))

fileA == FileOf(nameTxt, DeepWorkInput)

fileB == FileOf(nameUpperTxt, textTwoBooks)

\* Files whose read fails with a FileReader error of the given name.
fileUnreadable == [name |-> nameTxt, size |-> 200, text |-> <<>>, error |-> "NotReadableError"]

fileDenied == [name |-> nameTxt, size |-> 200, text |-> <<>>, error |-> "SecurityError"]

\* The files given to handleFile.
AppFiles ==
    { fileMissing, filePdf, fileTooLarge, fileEmpty, fileTooSmall, fileBlank,
      fileNoDelimiter, fileFewLines, fileNoRecords, fileA, fileB, fileUnreadable, fileDenied }

\* The texts readFile resolves with.
AppTexts == {f.text : f \in AppFiles \ {fileMissing}}

\* handleFile(file) up to its await: the page after it, whether the run now
\* awaits the text of the file, and what validateFile returned.
handleFileStart(u, file) ==
    IF validateFile(file) # "valid"
    THEN [ui |-> showError(clearNotifications(u), validateFile(file)), awaits |-> FALSE,
          outcome |-> validateFile(file)]
    ELSE [ui |-> showLoading(clearNotifications(u)), awaits |-> TRUE, outcome |-> "valid"]

\* The steps of handleFile after a parse that returned or raised, on the page
\* u with the loading indicator already dealt with by the caller's branch.
handleFileParsed(u, st) ==
    IF st.threw
    THEN [ui |-> showError(hideLoading(u),
                           CatchTitle([name |-> "TypeError", message |-> msgPushNotFunction])),
          notes |-> st.notes, books |-> st.books, threw |-> TRUE, parsed |-> TRUE,
          outcome |-> "Processing Error"]
    ELSE IF Len(st.notes) = 0
    THEN [ui |-> showError(hideLoading(u), "No Notes Found"),
          notes |-> st.notes, books |-> st.books, threw |-> FALSE, parsed |-> TRUE,
          outcome |-> "No Notes Found"]
    ELSE [ui |-> displayResults(u, st.notes, st.books),
          notes |-> st.notes, books |-> st.books, threw |-> FALSE, parsed |-> TRUE,
          outcome |-> "File Processed Successfully"]

\* handleFile from the rejection of readFile on: the catch block.
handleFileReadFailed(u, p, error) ==
    [ui |-> IF CatchTitle(error) = "" THEN hideLoading(u)
            ELSE showError(hideLoading(u), CatchTitle(error)),
     notes |-> p.notes, books |-> p.books, threw |-> p.threw, parsed |-> FALSE,
     outcome |-> CatchTitle(error)]

\* handleFile from the resolution of readFile on, for a text of which
\* validateContent returned valid and the parse gave st; p is the parser
\* before.
handleFileRead(u, p, valid, st) ==
    IF valid # "valid"
    THEN [ui |-> showError(hideLoading(u), valid),
          notes |-> p.notes, books |-> p.books, threw |-> p.threw, parsed |-> FALSE,
          outcome |-> valid]
    ELSE handleFileParsed(u, st)

\* validateContent and parseFile on every text of the model and at every
\* clock, computed once.
handleFileTable ==
    [text \in AppTexts, t \in 0..MaxClock |->
        [valid |-> validateContent(text), st |-> parseFile(text, t)]]

\* The change event of the file input with the chosen file (a drop is the
\* same but for the value of the input), or handleFile() without a file: the
\* run up to its await.
HandleFile(file) ==
    /\ BagCardinality(reads) < MaxPending
    /\ \E r \in {handleFileStart([ui EXCEPT !.fileInput = IF file = fileMissing THEN @ ELSE file], file)} :
           /\ ui' = r.ui
           /\ reads' = IF r.awaits THEN reads (+) SetToBag({file}) ELSE reads
           /\ fnRes' = r.outcome
    /\ fnArg' = [op |-> "handleFile", step |-> "validateFile", parsed |-> FALSE]
    /\ fnDone' = TRUE
    /\ UNCHANGED <<notes, books, threw, content, parsed, now, parsedAt, sameTextAt, pdf>>

\* The read of an awaited file ends, and its handleFile run goes on to its
\* end.
HandleFileRead(file) ==
    /\ BagIn(file, reads)
    /\ reads' = reads (-) SetToBag({file})
    /\ \E r \in { IF file.error # ""
                  THEN handleFileReadFailed(ui, [notes |-> notes, books |-> books, threw |-> threw],
                                            ReadError(file.error))
                  ELSE handleFileRead(ui, [notes |-> notes, books |-> books, threw |-> threw],
                                      handleFileTable[file.text, now].valid,
                                      handleFileTable[file.text, now].st) } :
           /\ ui' = r.ui
           /\ notes' = r.notes
           /\ books' = r.books
           /\ threw' = r.threw
           /\ content' = IF r.parsed THEN file.text ELSE content
           /\ parsed' = (parsed \/ r.parsed)
           /\ parsedAt' = IF r.parsed THEN now ELSE parsedAt
           /\ sameTextAt' = IF r.parsed
                            THEN (IF parsed /\ file.text = content THEN parsedAt ELSE -1)
                            ELSE sameTextAt
           /\ fnArg' = [op |-> "handleFile", step |-> "readFile", parsed |-> r.parsed]
           /\ fnRes' = r.outcome
    /\ fnDone' = TRUE
    /\ UNCHANGED <<now, pdf>>

\* A click on the reset button.
Reset ==
    /\ ui' = reset(ui)
    /\ fnArg' = [op |-> "reset"]
    /\ fnRes' = Undefined
    /\ fnDone' = TRUE
    /\ UNCHANGED <<notes, books, threw, content, parsed, now, parsedAt, sameTextAt, reads, pdf>>

\* showBookNotes(bookTitle) on the page u with the grouping bs: nothing for a
\* title without a group, else the group is sorted in place and the notes
\* view shows it.
showBookNotes(u, bs, bookTitle) ==
    IF OwnIndex(bs, bookTitle, 1) = 0
    THEN [ui |-> u, books |-> bs]
    ELSE [ui |-> showNotesView([u EXCEPT !.notesOf = bookTitle]),
          books |-> [bs EXCEPT ![OwnIndex(bs, bookTitle, 1)].value =
                         sortNotesByLocation(bs[OwnIndex(bs, bookTitle, 1)].value)]]

\* A click on the r-th card of the books grid.
ShowBookNotes(r) ==
    /\ ui.results
    /\ r \in 1..Len(ui.booksGrid)
    /\ \E v \in {showBookNotes(ui, books, ui.booksGrid[r].title)} :
           /\ ui' = v.ui
           /\ books' = v.books
    /\ fnArg' = [op |-> "showBookNotes", bookTitle |-> ui.booksGrid[r].title]
    /\ fnRes' = Undefined
    /\ fnDone' = TRUE
    /\ UNCHANGED <<notes, threw, content, parsed, now, parsedAt, sameTextAt, reads, pdf>>

\* downloadHighlightsPDF(bookTitle) with the library loaded: the page after
\* it, with the error of a title that has no group.
exportPDF(u, bs, bookTitle) ==
    IF OwnIndex(bs, bookTitle, 1) = 0 THEN showError(u, "Export Error") ELSE u

\* offerPDFAlternatives(bookTitle): the page after it.
offerPDFAlternatives(u) == showError(clearNotifications(u), "PDF Export Unavailable")

\* The request loadJsPDFAndExport(bookTitle) starts: its script element is
\* loading and its 10-second timer runs; nothing was offered or retried yet.
NewPdfRequest(bookTitle) ==
    [bookTitle |-> bookTitle, script |-> "loading", timer |-> TRUE, retry |-> FALSE,
     offered |-> 0, retried |-> 0]

\* A click on "Download PDF" of the r-th card: downloadHighlightsPDF(title).
DownloadHighlightsPDF(r) ==
    /\ ui.results
    /\ r \in 1..Len(ui.booksGrid)
    /\ pdf.jspdf \/ Len(pdf.requests) < MaxPdfRequests
    /\ IF pdf.jspdf
       THEN /\ ui' = exportPDF(ui, books, ui.booksGrid[r].title)
            /\ pdf' = pdf
       ELSE /\ ui' = ui
            /\ pdf' = [pdf EXCEPT !.requests = Append(@, NewPdfRequest(ui.booksGrid[r].title))]
    /\ fnArg' = [op |-> "downloadHighlightsPDF", bookTitle |-> ui.booksGrid[r].title]
    /\ fnRes' = Undefined
    /\ fnDone' = TRUE
    /\ UNCHANGED <<notes, books, threw, content, parsed, now, parsedAt, sameTextAt, reads>>

\* script.onload of a request, with jspdf telling whether window.jspdf is
\* defined then: the export is retried in half a second, or the alternatives
\* are offered.
scriptOnload(q, jspdf) ==
    IF jspdf
    THEN [q EXCEPT !.script = "loaded", !.retry = TRUE]
    ELSE [q EXCEPT !.script = "loaded", !.offered = @ + 1]

\* script.onerror of a request.
scriptOnerror(q) == [q EXCEPT !.script = "failed", !.offered = @ + 1]

\* The callback of the 10-second timer of a request.
loadTimeout(q, jspdf) ==
    IF jspdf
    THEN [q EXCEPT !.timer = FALSE]
    ELSE [q EXCEPT !.timer = FALSE,
                   !.script = IF @ = "loading" THEN "removed" ELSE @,
                   !.offered = @ + 1]

\* The script of the k-th request has loaded and run; defines tells whether
\* it has set window.jspdf.  A script element removed from the document still
\* loads.
ScriptOnload(k, defines) ==
    /\ k \in 1..Len(pdf.requests)
    /\ pdf.requests[k].script \in {"loading", "removed"}
    /\ pdf' = [jspdf |-> (pdf.jspdf \/ defines),
               requests |-> [pdf.requests EXCEPT
                                ![k] = scriptOnload(@, pdf.jspdf \/ defines)]]
    /\ ui' = IF pdf.jspdf \/ defines THEN clearNotifications(ui)
             ELSE offerPDFAlternatives(clearNotifications(ui))
    /\ fnArg' = [op |-> "script.onload", request |-> k]
    /\ fnRes' = Undefined
    /\ fnDone' = TRUE
    /\ UNCHANGED <<notes, books, threw, content, parsed, now, parsedAt, sameTextAt, reads>>

\* The script of the k-th request could not be loaded.
ScriptOnerror(k) ==
    /\ k \in 1..Len(pdf.requests)
    /\ pdf.requests[k].script \in {"loading", "removed"}
    /\ pdf' = [pdf EXCEPT !.requests[k] = scriptOnerror(@)]
    /\ ui' = offerPDFAlternatives(ui)
    /\ fnArg' = [op |-> "script.onerror", request |-> k]
    /\ fnRes' = Undefined
    /\ fnDone' = TRUE
    /\ UNCHANGED <<notes, books, threw, content, parsed, now, parsedAt, sameTextAt, reads>>

\* Ten seconds after the k-th request.
LoadTimeout(k) ==
    /\ k \in 1..Len(pdf.requests)
    /\ pdf.requests[k].timer
    /\ pdf' = [pdf EXCEPT !.requests[k] = loadTimeout(@, pdf.jspdf)]
    /\ ui' = IF pdf.jspdf THEN ui ELSE offerPDFAlternatives(ui)
    /\ fnArg' = [op |-> "loadTimeout", request |-> k]
    /\ fnRes' = Undefined
    /\ fnDone' = TRUE
    /\ UNCHANGED <<notes, books, threw, content, parsed, now, parsedAt, sameTextAt, reads>>

\* Half a second after the script of the k-th request has loaded the
\* library: downloadHighlightsPDF(bookTitle) again.
RetryExport(k) ==
    /\ k \in 1..Len(pdf.requests)
    /\ pdf.requests[k].retry
    /\ pdf' = [pdf EXCEPT !.requests[k].retry = FALSE, !.requests[k].retried = @ + 1]
    /\ ui' = exportPDF(ui, books, pdf.requests[k].bookTitle)
    /\ fnArg' = [op |-> "downloadHighlightsPDF", bookTitle |-> pdf.requests[k].bookTitle]
    /\ fnRes' = Undefined
    /\ fnDone' = TRUE
    /\ UNCHANGED <<notes, books, threw, content, parsed, now, parsedAt, sameTextAt, reads>>

NextApp ==
    \/ \E file \in AppFiles : HandleFile(file)
    \/ \E file \in AppFiles \ {fileMissing} : HandleFileRead(file)
    \/ Reset
    \/ \E r \in 1..MaxEntries : ShowBookNotes(r)

SpecApp == Init /\ [][NextApp]_vars

\* The application with its PDF export, on the two files with Records.
NextPdf ==
    \/ \E file \in {fileA, fileB} : HandleFile(file)
    \/ \E file \in {fileA, fileB} : HandleFileRead(file)
    \/ \E r \in 1..MaxEntries : DownloadHighlightsPDF(r)
    \/ \E k \in 1..MaxPdfRequests, defines \in BOOLEAN : ScriptOnload(k, defines)
    \/ \E k \in 1..MaxPdfRequests : ScriptOnerror(k)
    \/ \E k \in 1..MaxPdfRequests : LoadTimeout(k)
    \/ \E k \in 1..MaxPdfRequests : RetryExport(k)

SpecPdf == Init /\ [][NextPdf]_vars

-----------------------------------------------------------------------------
(* What the claims are stated with *)

\* The number of lines of entry that are not blank after trimming.
NonBlankLines(entry) ==
    LET ls == Split(entry, <<NL>>)
    IN  Cardinality({i \in 1..Len(ls) : Trim(ls[i]) # <<>>})

\* The Records of text parsed at clock t: one for each delimiter-separated
\* entry with at least two non-blank lines, in document order.
RecordsOf(text, t) ==
    LET q == SelectSeq(Split(text, SEPARATOR), LAMBDA e : NonBlankLines(e) >= 2)
    IN  [i \in 1..Len(q) |-> parseEntry(Trim(q[i]), t)]

\* The groups of the grouping, one after the other.
AllGrouped == Flatten([i \in 1..Len(books) |-> books[i].value])

\* How often r occurs in the sequence s.
Count(s, r) == Cardinality({i \in 1..Len(s) : s[i] = r})

\* Whether b is a permutation of a.
IsPermutation(a, b) ==
    /\ Len(a) = Len(b)
    /\ \A i \in 1..Len(a) : Count(a, a[i]) = Count(b, a[i])

\* The Records of the flat list with title k, in the order of the list.
NotesTitled(k) == SelectSeq(notes, LAMBDA n : n.bookTitle = k)

-----------------------------------------------------------------------------
(* Claims *)

\* C1: after every parseFile call the flat list holds exactly one Record for
\* each delimiter-separated entry with at least two non-blank lines, in
\* document order, duplicates kept; no entry removes the Records of the
\* entries around it.
C1_OneRecordPerEntry ==
    parsed => notes = RecordsOf(content, parsedAt)

\* C2: after any sequence of parseFile calls the flat list and the grouping
\* both hold exactly the Records of the last call's input, never those of a
\* partly processed input.
C2_LastInputOnly ==
    parsed =>
        /\ IsPermutation(notes, RecordsOf(content, parsedAt))
        /\ IsPermutation(AllGrouped, RecordsOf(content, parsedAt))

\* C3: after every parseFile call every Record of the flat list is in exactly
\* one group, the one keyed by its bookTitle; the groups together are a
\* permutation of the flat list and each group keeps the order of the list.
C3_GroupingComplete ==
    /\ \A i \in 1..Len(notes) :
          LET g == OwnIndex(books, notes[i].bookTitle, 1)
          IN  g # 0 /\ books[g].value = NotesTitled(notes[i].bookTitle)
    /\ \A g, h \in 1..Len(books) : books[g].key = books[h].key => g = h
    /\ IsPermutation(notes, AllGrouped)

\* C4: parseFile never raises, whatever the content of the string it is given.
C4_NeverRaises == ~threw


\* The text after "Added on " in a metadata line where /Added on (.+?)$/ matches at p.
DateTextAt(line, p) == SubSeq(line, p + Len(kwAddedOn), Len(line))

\* C5: when the text after "Added on " cannot be parsed as a date, dateAdded is
\* the current time at the moment of parsing; dateAdded is never an invalid date.
C5_FallbackIsNow ==
    fnDone =>
        LET dp == DateIndex(fnArg, 1)
        IN  /\ fnRes[4].valid
            /\ (dp # 0 /\ IsNaNDate(DateFromString(DateTextAt(fnArg, dp))))
                   => fnRes[4] = DateNow(now)

\* C6 as stated: parsing the same text again, at any later moment, gives the
\* same Records: same length, same order, every field equal.
C6_SameTextSameRecords ==
    [][(parsed /\ content' = content) => notes' = notes]_vars

\* Whether the lists a (parsed at ta) and b (parsed at tb) have the same length
\* and pairwise agree in every field but dateAdded, and dateAdded is the same in
\* both or is, in each, the time of its own parse.
SameButParseTime(a, ta, b, tb) ==
    /\ Len(a) = Len(b)
    /\ \A i \in 1..Len(a) :
          /\ [a[i] EXCEPT !.dateAdded = Null] = [b[i] EXCEPT !.dateAdded = Null]
          /\ \/ a[i].dateAdded = b[i].dateAdded
             \/ a[i].dateAdded = DateNow(ta) /\ b[i].dateAdded = DateNow(tb)

\* C6 as amended: parsing the same text again gives Records that agree in
\* every field but dateAdded; dateAdded agrees too, unless it is the time of
\* the parse itself (a metadata line without an "Added on" clause).
C6_SameTextSameRecordsButNow ==
    [][(parsed /\ content' = content)
          => SameButParseTime(notes, parsedAt, notes', parsedAt')]_vars

\* C6's case: the same text was parsed twice, the second time later, and gave a
\* Record dated from its text and a Record dated by the clock.
C6_Witness ==
    /\ sameTextAt >= 0
    /\ sameTextAt < parsedAt
    /\ \E i, j \in 1..Len(notes) :
          /\ notes[i].dateAdded = DateNow(parsedAt)
          /\ notes[j].dateAdded = DateFromString(dateYear)


\* The greatest index of line that holds the character c, 0 when none does.
LastIndexOfChar(line, c) ==
    LET S == {i \in 1..Len(line) : line[i] = c}
    IN  IF S = {} THEN 0 ELSE CHOOSE i \in S : \A k \in S : k <= i

\* The least element of a non-empty set of numbers.
SetMin(S) == CHOOSE i \in S : \A k \in S : i <= k

\* line split at its index j: the text before j and the text between j and the
\* last character, each trimmed.
SplitAt(line, j) ==
    <<Trim(SubSeq(line, 1, j - 1)), Trim(SubSeq(line, j + 1, Len(line) - 1))>>

\* Where the parenthesized group at the end of line opens: the last "(" of a
\* line that ends with ")", provided no other ")" follows it; 0 for a line
\* that does not end with such a group.
TrailingGroupOpen(line) ==
    LET n == Len(line)
        j == LastIndexOfChar(line, "(")
    IN  IF n >= 1 /\ line[n] = ")" /\ j # 0 /\ \A k \in (j + 1)..(n - 1) : line[k] # ")"
        THEN j ELSE 0

\* The "(" of line, after its first character, that have at least one
\* character and no ")" between them and a final ")".
UnclosedOpens(line) ==
    LET n == Len(line)
    IN  {j \in 2..(n - 2) : /\ line[j] = "("
                            /\ line[n] = ")"
                            /\ \A k \in (j + 1)..(n - 1) : line[k] # ")"}

SeveralParens(line) ==
    /\ Cardinality({i \in 1..Len(line) : line[i] = "("}) >= 2
    /\ line[Len(line)] = ")"

C9_TitleNeverEmpty ==
    (fnDone /\ fnRes.type = "KindleNote") =>
        /\ fnRes.bookTitle # <<>>
        /\ UnclosedOpens(EntryLines(fnArg)[1]) = {}
              => fnRes.bookTitle = EntryLines(fnArg)[1]

\* C9's case: an entry gave a Record whose title line is nothing but a
\* parenthesized group, which the pattern does not match, so the line itself
\* is the title.
C9_Witness ==
    /\ fnDone
    /\ fnRes.type = "KindleNote"
    /\ TrailingGroupOpen(EntryLines(fnArg)[1]) = 1
    /\ fnRes.author = kwUnknown
    /\ fnRes.bookTitle = EntryLines(fnArg)[1]

\* Whether the word w occurs in line as a substring.
Occurs(line, w) ==
    \E i \in 1..Len(line) :
        i + Len(w) - 1 <= Len(line) /\ SubSeq(line, i, i + Len(w) - 1) = w

\* C10: the note type depends only on which keywords occur in the metadata
\* line: "Highlight" when that occurs, else "Bookmark" when that occurs, else
\* "Note" when that occurs, else "Unknown".
C10_KindByPriority ==
    fnDone =>
        fnRes[1] = IF Occurs(fnArg, kwHighlight) THEN kwHighlight
                   ELSE IF Occurs(fnArg, kwBookmark) THEN kwBookmark
                   ELSE IF Occurs(fnArg, kwNote) THEN kwNote
                   ELSE kwUnknown

\* C10's case: a line that holds "Note" before "Bookmark" and no "Highlight"
\* was given the type Bookmark.
C10_Witness ==
    /\ fnDone
    /\ Occurs(fnArg, kwNote \o kwBookmark)
    /\ ~Occurs(fnArg, kwHighlight)
    /\ fnRes[1] = kwBookmark

\* Whether marker occurs in line with a digit right after it.
OccursBeforeDigit(line, marker) ==
    \E i \in 1..Len(line) :
        /\ i + Len(marker) <= Len(line)
        /\ SubSeq(line, i, i + Len(marker) - 1) = marker
        /\ line[i + Len(marker)] \in Digits

\* Whether line holds none of the three note type keywords.
NoKeyword(line) ==
    ~Occurs(line, kwHighlight) /\ ~Occurs(line, kwBookmark) /\ ~Occurs(line, kwNote)

\* C11: each of the four metadata fields falls back on its own: without a
\* note type keyword the type is "Unknown", without "Location <digits>" the
\* location is the empty string, without "page <digits>" the page is null,
\* without "Added on " the date is the clock at the parse; so a line with none
\* of them gives all four defaults.
C11_DefaultsIndependent ==
    fnDone =>
        /\ NoKeyword(fnArg) => fnRes[1] = kwUnknown
        /\ ~OccursBeforeDigit(fnArg, kwLocation) => fnRes[2] = <<>>
        /\ ~OccursBeforeDigit(fnArg, kwPage) => fnRes[3] = Null
        /\ ~Occurs(fnArg, kwAddedOn) => fnRes[4] = DateNow(now)

\* C11's case: a line with none of the four, parsed after the clock moved,
\* gave the four defaults.
C11_Witness ==
    /\ fnDone
    /\ now = MaxClock
    /\ NoKeyword(fnArg)
    /\ ~OccursBeforeDigit(fnArg, kwLocation)
    /\ ~OccursBeforeDigit(fnArg, kwPage)
    /\ ~Occurs(fnArg, kwAddedOn)
    /\ Occurs(fnArg, kwLocation)
    /\ fnRes = <<kwUnknown, <<>>, Null, DateNow(MaxClock)>>

\* The integer the claims read from a location: the number written by the
\* first run of digits, 0 when there is none.
LocationKey(r) ==
    LET ds == {i \in 1..Len(r.location) : r.location[i] \in Digits}
    IN  IF ds = {} THEN 0
        ELSE LET a == SetMin(ds)
                 e == SetMin({j \in a..Len(r.location) :
                                 j = Len(r.location) \/ r.location[j + 1] \notin Digits})
             IN  parseInt(SubSeq(r.location, a, e))

\* The Records of s whose location key is v, in the order of s.
WithKey(s, v) == SelectSeq(s, LAMBDA r : LocationKey(r) = v)

\* C12: sortNotesByLocation returns a permutation of the Records it was
\* given, ascending by the integer of the first digit run of location (0
\* when there is none), and Records of equal key keep their input order.
C12_StableAscending ==
    fnDone =>
        /\ IsPermutation(fnArg, fnRes)
        /\ \A i, j \in 1..Len(fnRes) : i < j => LocationKey(fnRes[i]) <= LocationKey(fnRes[j])
        /\ \A i \in 1..Len(fnArg) :
              WithKey(fnRes, LocationKey(fnArg[i])) = WithKey(fnArg, LocationKey(fnArg[i]))

\* C12's case: the locations "10", "2", "10-20" came back as "2", "10", "10-20".
C12_Witness ==
    /\ fnDone
    /\ [i \in 1..Len(fnArg) |-> fnArg[i].location]
          = << <<"1", "0">>, <<"2">>, <<"1", "0", "-", "2", "0">> >>
    /\ [i \in 1..Len(fnRes) |-> fnRes[i].location]
          = << <<"2">>, <<"1", "0">>, <<"1", "0", "-", "2", "0">> >>

\* Whether a and b are one character up to the case of a letter.
SameLetter(a, b) ==
    a = b \/ \E n \in 1..Len(UpperCase) : {a, b} = {UpperCase[n], LowerCase[n]}

\* Whether needle occurs in hay as a substring, the case of letters ignored.
OccursIgnoringCase(hay, needle) ==
    \E i \in 1..(Len(hay) + 1) :
        /\ i + Len(needle) - 1 <= Len(hay)
        /\ \A k \in 1..Len(needle) : SameLetter(hay[i + k - 1], needle[k])

\* Whether the Record r matches the query and the filter, as the claims say it.
Matches(r, query, typeFilter) ==
    /\ \/ query = <<>>
       \/ OccursIgnoringCase(r.content, query)
       \/ OccursIgnoringCase(r.bookTitle, query)
       \/ OccursIgnoringCase(r.author, query)
    /\ typeFilter = kwAll \/ r.noteType = typeFilter

\* C13: searchNotes returns, in the order of the flat list, exactly its
\* Records for which the query is empty or occurs, case ignored, in content,
\* bookTitle or author, and the filter is "all" or the Record's note type;
\* the empty query with "all" gives the whole list.
C13_SearchIsFilter ==
    (fnDone /\ fnArg.op = "searchNotes") =>
        /\ fnRes = SelectSeq(notes, LAMBDA r : Matches(r, fnArg.query, fnArg.typeFilter))
        /\ (fnArg.query = <<>> /\ fnArg.typeFilter = kwAll) => fnRes = notes

\* C13's case: a query in upper case found a Record by its lower-case
\* content and left another Record of the list out.
C13_Witness ==
    /\ fnDone
    /\ fnArg.op = "searchNotes"
    /\ fnArg.query = <<"H", "I">>
    /\ fnArg.typeFilter = kwHighlight
    /\ Len(notes) = 2
    /\ Len(fnRes) = 1
    /\ fnRes[1].content = lineBody

\* The distinct titles of the Records of ns, each at its first appearance.
FirstTitles(ns) ==
    LET first == SelectSeq([i \in 1..Len(ns) |-> i],
                           LAMBDA i : \A j \in 1..(i - 1) : ns[j].bookTitle # ns[i].bookTitle)
    IN  [k \in 1..Len(first) |-> ns[first[k]].bookTitle]

\* Whether the grouping obj enumerates the titles of ns in the order of their
\* first appearance and lists under each title its Records in the order of ns.
GroupedInOrder(obj, ns) ==
    /\ [i \in 1..Len(obj) |-> obj[i].key] = FirstTitles(ns)
    /\ \A i \in 1..Len(obj) :
          obj[i].value = SelectSeq(ns, LAMBDA r : r.bookTitle = obj[i].key)

\* C14: the grouping parseFile builds and the grouping getBooksBySearch
\* returns enumerate their titles in the order of first appearance, titles
\* made of digits included, and list the Records of each title in document
\* order.
C14_TitlesInFirstAppearanceOrder ==
    /\ (fnDone /\ fnArg.op = "parseFile" /\ ~threw) => GroupedInOrder(books, notes)
    /\ (fnDone /\ fnArg.op = "getBooksBySearch" /\ fnRes.type = "Object") =>
          GroupedInOrder(fnRes.props,
                         SelectSeq(notes, LAMBDA r : Matches(r, fnArg.query, fnArg.typeFilter)))

\* The number of Records of the flat list with note type k.
CountKind(k) == Cardinality({i \in 1..Len(notes) : notes[i].noteType = k})

\* The counts of the statistics besides the two totals and the counts of
\* Highlight, Bookmark and Note.
OtherCounts(stats) ==
    DOMAIN stats \ {"totalNotes", "totalBooks", "highlights", "bookmarks", "notes"}

\* C15: getStatistics reports the number of Records, the number of distinct
\* titles among them and, for each of Highlight, Bookmark, Note and Unknown,
\* the number of Records of that type; the four counts add up to the total.
C15_StatisticsCountEveryKind ==
    (fnDone /\ fnArg.op = "getStatistics") =>
        /\ fnRes.totalNotes = Len(notes)
        /\ fnRes.totalBooks = Cardinality({notes[i].bookTitle : i \in 1..Len(notes)})
        /\ fnRes.highlights = CountKind(kwHighlight)
        /\ fnRes.bookmarks = CountKind(kwBookmark)
        /\ fnRes.notes = CountKind(kwNote)
        /\ \E f \in OtherCounts(fnRes) :
              /\ fnRes[f] = CountKind(kwUnknown)
              /\ fnRes.highlights + fnRes.bookmarks + fnRes.notes + fnRes[f] = fnRes.totalNotes

\* What the two-entry file gives but for the statistics: two Records in one
\* group "Deep Work", a highlight with its location and body, then a bookmark
\* with its location and no body.
DeepWorkRecords ==
    /\ Len(notes) = 2
    /\ [i \in 1..Len(books) |-> books[i].key] = << <<"D", "e", "e", "p", SP, "W", "o", "r", "k">> >>
    /\ IsPermutation(books[1].value, notes)
    /\ notes[1].noteType = kwHighlight
    /\ notes[1].location = <<"1", "5", "0", "-", "1", "5", "2">>
    /\ notes[1].content = lineBodyDeepWork
    /\ notes[2].noteType = kwBookmark
    /\ notes[2].location = <<"3", "0", "0">>
    /\ notes[2].content = <<>>

\* C16: parsing the two-entry "Deep Work (Cal Newport)" file gives exactly
\* those two Records in one group, and the statistics then report 2 Records,
\* 1 group, 1 Highlight, 1 Bookmark, 0 Note and 0 Unknown.
C16_DeepWorkScenario ==
    (parsed /\ content = DeepWorkInput) =>
        /\ DeepWorkRecords
        /\ (fnArg.op = "getStatistics") =>
              /\ fnRes.totalNotes = 2
              /\ fnRes.totalBooks = 1
              /\ fnRes.highlights = 1
              /\ fnRes.bookmarks = 1
              /\ fnRes.notes = 0
              /\ \E f \in OtherCounts(fnRes) : fnRes[f] = 0

\* The call of cleanBookTitle has returned result for the title and the author.
Cleans(bookTitle, author, result) ==
    (fnDone /\ fnArg = [bookTitle |-> bookTitle, author |-> author]) => fnRes = result

\* C17: the steps of cleanBookTitle run in the order prefix, long numbers,
\* hyphens and underscores, blanks, author, edition suffix, trailing punctuation,
\* capitalisation, as the titles show on which the order of two neighbouring
\* steps decides the result; "dokumen.pub_great-expectations-0123456789" by
\* "Charles Dickens" gives "Great Expectations".
C17_StepsInOrder ==
    /\ Cleans(titleGreatExpectations, authorCharlesDickens,
              <<"G", "r", "e", "a", "t", SP, "E", "x", "p", "e", "c", "t", "a", "t", "i", "o", "n", "s">>)
    \* the prefix goes first: the number left behind it is a long number
    /\ Cleans(<<"v", "d", "o", "c", ".", "p", "u", "b", "0", "1", "2", "3", "4", "5">>, <<>>, <<"v", "d", "o", "c", ".", "p", "u", "b", "0", "1", "2", "3", "4", "5">>)
    \* long numbers before underscores: a number behind an underscore stays
    /\ Cleans(<<"a", "_", "0", "1", "2", "3", "4", "5">>, <<>>, <<"A", SP, "0", "1", "2", "3", "4", "5">>)
    \* hyphens, then blanks, then the author: "bob- ray" is the name "Bob Ray"
    /\ Cleans(titleBobRay, authorBobRay, titleBobRay)
    \* the author before the edition suffix
    /\ Cleans(<<"a", SP, "r", "e", "v", "i", "s", "e", "d", SP, "b", "o", "b">>, <<"b", "o", "b">>, <<"A">>)
    \* the edition suffix before the trailing punctuation
    /\ Cleans(<<"a", SP, "r", "e", "v", "i", "s", "e", "d", ".">>, <<>>, <<"A", SP, "R", "e", "v", "i", "s", "e", "d">>)
    \* the trailing punctuation before the capitalisation
    /\ Cleans(<<"a", SP, "t", "h", "e", ".">>, <<>>, <<"A", SP, "t", "h", "e">>)

C17_Witness ==
    /\ fnDone
    /\ fnArg = [bookTitle |-> titleGreatExpectations, author |-> authorCharlesDickens]
    /\ fnRes = <<"G", "r", "e", "a", "t", SP, "E", "x", "p", "e", "c", "t", "a", "t", "i", "o", "n", "s">>

\* C18: for a raw title that is not empty cleanBookTitle returns a title that
\* is not empty: what the steps leave when they leave something, and the raw
\* title unchanged when they leave nothing, as they do for a title that is only
\* a prefix, a long number or the name of the author.
C18_FallbackToRawTitle ==
    (fnDone /\ fnArg.bookTitle # <<>>) =>
        /\ fnRes # <<>>
        /\ fnRes \in {CleanedTitle(fnArg.bookTitle, fnArg.author), fnArg.bookTitle}
        /\ (CleanedTitle(fnArg.bookTitle, fnArg.author) = <<>>) => fnRes = fnArg.bookTitle
        /\ (\/ fnArg.bookTitle \in {<<"v", "d", "o", "c", ".", "p", "u", "b">>, <<"0", "1", "2", "3", "4", "5">>}
            \/ fnArg.bookTitle = fnArg.author) => fnRes = fnArg.bookTitle

C18_Witness ==
    /\ fnDone
    /\ fnArg = [bookTitle |-> authorCharlesDickens, author |-> authorCharlesDickens]
    /\ fnRes = authorCharlesDickens

\* The Records of a sequence, as a set.
RecordsIn(s) == {s[k] : k \in 1..Len(s)}

\* C19: after a parse, whatever query operations were called since, every
\* Record has the field values it was constructed with: the list holds the
\* Records the parse constructed, every group holds the Records of the list
\* with its title, and the Records an operation returns are Records of the list.
C19_RecordsKeepTheirFields ==
    parsed =>
        /\ Len(notes) <= Len(RecordsOf(content, parsedAt))
        /\ \A k \in 1..Len(notes) : notes[k] = RecordsOf(content, parsedAt)[k]
        /\ \A i \in 1..Len(books) : IsPermutation(books[i].value, NotesTitled(books[i].key))
        /\ (fnArg.op \in {"searchNotes", "sortNotesByLocation"}) =>
               RecordsIn(fnRes) \subseteq RecordsIn(notes)
        /\ (fnArg.op = "getBooksBySearch" /\ fnRes.type = "Object") =>
               \A i \in 1..Len(fnRes.props) :
                   RecordsIn(fnRes.props[i].value) \subseteq RecordsIn(notes)

C19_Witness ==
    /\ parsed
    /\ fnArg.op = "sortNotesByLocation"
    /\ Len(fnRes) = 2
    /\ fnRes # NotesTitled(fnArg.bookTitle)
    /\ \E k \in 1..2 : fnRes[k].location # <<>>

\* The number of indices of s at which p occurs.
Occurrences(s, p) == Cardinality({i \in 1..Len(s) : StartsWithAt(s, i, p)})

\* The arguments parseEntry was called with during the parse of the state.
Entered == parseFile(content, parsedAt).entered

\* C20: a text with k occurrences of the delimiter is split into at most k + 1
\* candidate entries, parseEntry is called for candidates that are not blank
\* only, and so the parse yields at most k + 1 Records.
C20_AtMostOneRecordPerCandidate ==
    parsed =>
        /\ Len(Split(content, SEPARATOR)) <= Occurrences(content, SEPARATOR) + 1
        /\ \A i \in 1..Len(Entered) : Trim(Entered[i]) # <<>>
        /\ Len(Entered) <= Len(Split(content, SEPARATOR))
        /\ Len(notes) <= Len(Entered)
        /\ Len(notes) <= Occurrences(content, SEPARATOR) + 1

C20_Witness ==
    /\ parsed
    /\ Occurrences(content, SEPARATOR) = 2
    /\ \E i \in 1..3 : Trim(Split(content, SEPARATOR)[i]) = <<>>
    /\ Len(Entered) = 2
    /\ Len(notes) = 2

\* Whether the title t, which ends in no blank, ends with the word w, letters
\* compared whatever their case, with a word boundary before and after it.
IsTrailingWord(t, w) ==
    /\ Len(w) <= Len(t)
    /\ \A k \in 1..Len(w) : ToUpperChar(t[Len(t) - Len(w) + k]) = ToUpperChar(w[k])
    /\ WordBoundary(t, Len(t) - Len(w) + 1)
    /\ WordBoundary(t, Len(t) + 1)

RECURSIVE OncePerWord(_, _)
\* The title after one pass over the words: each word of more than two
\* characters that is the trailing word when its turn comes is cut off.
OncePerWord(t, ws) ==
    IF ws = <<>> THEN t
    ELSE OncePerWord(IF Len(ws[1]) > 2 /\ IsTrailingWord(t, ws[1])
                     THEN Trim(SubSeq(t, 1, Len(t) - Len(ws[1])))
                     ELSE t,
                     Tail(ws))

\* The title the steps after the pass over the author's words make of t.
AfterAuthorWords(t, bookTitle) ==
    OrElse(Capitalize(RemoveTrailingPunctuation(RemoveEditionSuffix(RemoveParenthetical(t)))),
           bookTitle)

\* C22: with a non-blank author, once the full name is off the end of the
\* title, each word of the author of more than two characters is tried once,
\* in the order of the name, and cut off if it is the trailing word then; the
\* pass is not repeated and shorter words are never cut off.
C22_AuthorWordsTriedOnce ==
    (fnDone /\ Trim(fnArg.author) # <<>>) =>
        fnRes = AfterAuthorWords(
                    OncePerWord(RemoveAtEnd(Normalize(fnArg.bookTitle),
                                            escapeRegex(Trim(fnArg.author))),
                                SplitWs(Trim(fnArg.author))),
                    fnArg.bookTitle)

C22_Witness ==
    /\ fnDone
    /\ fnArg = [bookTitle |-> <<SP, "b", "o", "b", SP, "r", "a", "y", SP, "r", "a", "y">>, author |-> authorBobRay]
    /\ fnRes = authorBobRay

\* C23: sortNotesByLocation leaves the list it is given as it was: after any
\* calls of showBookNotes that follow a parse, every group of books lists its
\* Records in document order.
C23_GroupsStayInDocumentOrder ==
    parsed => \A i \in 1..Len(books) : books[i].value = NotesTitled(books[i].key)

\* C24: every Record has a non-empty author, the text in the trailing
\* parentheses of the title line or "Unknown".
C24_AuthorNeverEmpty ==
    (fnDone /\ fnRes.type = "KindleNote") => fnRes.author # <<>>

\* C25: a call of parseFile with null, undefined or a number signals an error
\* and leaves the list and the grouping as they were.
C25_NonStringInputRejected ==
    [][(fnArg'.op = "parseFileNonString") =>
           /\ fnRes' = TypeError
           /\ notes' = notes
           /\ books' = books]_vars

C25_Witness ==
    /\ fnArg.op = "parseFileNonString"
    /\ fnArg.input = Null
    /\ fnRes = TypeError
    /\ Len(notes) = 2
    /\ Len(books) >= 1

\* The grouping books restricted to the Records that match: the groups with a
\* match, in the order of books, each the sub-list of its matching Records.
RestrictedBooks(query, typeFilter) ==
    LET kept == SelectSeq(books, LAMBDA b :
                    \E k \in 1..Len(b.value) : Matches(b.value[k], query, typeFilter))
    IN  [i \in 1..Len(kept) |->
            [key |-> kept[i].key,
             value |-> SelectSeq(kept[i].value, LAMBDA r : Matches(r, query, typeFilter))]]

\* C30: in every state after a parse, books viewed or not, getBooksBySearch
\* returns the grouping books restricted to the matching Records, each group
\* in the order of the group of books; for the empty query and "all" that is books.
C30_SearchGroupsRefineBooks ==
    (parsed /\ fnDone /\ fnArg.op = "getBooksBySearch") =>
        /\ fnRes.type = "Object"
        /\ fnRes.props = RestrictedBooks(fnArg.query, fnArg.typeFilter)
        /\ (fnArg.query = <<>> /\ fnArg.typeFilter = kwAll) => fnRes.props = books

\* C21: a parse that gives no Record returns normally, with an empty list and
\* an empty grouping; the handleFile run that made it reports "No Notes
\* Found", hides the loading indicator, and shows neither the statistics card
\* nor the books view: it leaves them, and what they render, as they were.
C21_NoNotesFoundReported ==
    [][(fnArg'.op = "handleFile" /\ fnArg'.parsed /\ notes' = <<>>) =>
           /\ ~threw'
           /\ books' = <<>>
           /\ fnRes' = "No Notes Found"
           /\ ui'.lastError = "No Notes Found"
           /\ ~ui'.loading
           /\ ui'.statsCard => ui.statsCard
           /\ ui'.results => ui.results
           /\ ui'.controls => ui.controls
           /\ ui'.statsGrid = ui.statsGrid
           /\ ui'.booksGrid = ui.booksGrid]_vars

C21_Witness ==
    /\ fnArg.op = "handleFile"
    /\ fnArg.parsed
    /\ content = fileNoRecords.text
    /\ notes = <<>>
    /\ books = <<>>
    /\ ui.lastError = "No Notes Found"
    /\ ~ui.loading
    /\ ~ui.statsCard
    /\ ~ui.results

\* What the parse of the text of a file leaves, at the clock t.
ParseOf(file, t) == handleFileTable[file.text, t].st

\* C26: the loading indicator is displayed as long as a handleFile run awaits
\* its file; and once no run awaits a file, the parser state and the displayed
\* results are those of the file chosen last (here a file with Records),
\* whatever the order in which the reads ended.
C26_LastSelectedFileWins ==
    /\ reads # EmptyBag => ui.loading
    /\ (reads = EmptyBag /\ ui.fileInput \in {fileA, fileB}) =>
           /\ content = ui.fileInput.text
           /\ notes = ParseOf(ui.fileInput, parsedAt).notes
           /\ ui.statsGrid = getStatistics(ParseOf(ui.fileInput, parsedAt).notes,
                                           ParseOf(ui.fileInput, parsedAt).books)
           /\ ui.booksGrid = displayBooks(ui, ParseOf(ui.fileInput, parsedAt).books).booksGrid

\* C27: a PDF export request made while the library is not loaded has at most
\* one outcome, once: the export is retried once, or the alternatives are
\* offered once, never both and never one of them twice.
C27_OneOutcomePerRequest ==
    \A k \in 1..Len(pdf.requests) :
        pdf.requests[k].offered + pdf.requests[k].retried <= 1

\* Whether the step ends the handleFile run that awaited the given file.
Handled(file) ==
    /\ BagIn(file, reads)
    /\ reads' = reads (-) SetToBag({file})

\* Whether the step is handleFile rejecting the given file at validateFile
\* (for no file at all, by the error reported).
Refused(file) ==
    /\ fnArg'.op = "handleFile"
    /\ fnArg'.step = "validateFile"
    /\ reads' = reads
    /\ IF file = fileMissing THEN fnRes' = "No File Selected" ELSE ui'.fileInput = file

\* Whether the step reports an error and leaves the list and the grouping of
\* the parser as they were, without a call of parseFile.
FailsCleanly ==
    /\ ~fnArg'.parsed
    /\ ui'.lastError # ""
    /\ ui'.lastError = fnRes'
    /\ notes' = notes
    /\ books' = books

\* The files validateFile refuses: no file, no .txt name, over 50 MB, size 0,
\* under 100 bytes.
RefusedFiles == {fileMissing, filePdf, fileTooLarge, fileEmpty, fileTooSmall}

\* The files that fail after validateFile: blank text, no delimiter, fewer
\* than 3 non-blank lines, and the two whose read fails.
FailingFiles == {fileBlank, fileNoDelimiter, fileFewLines, fileUnreadable, fileDenied}

\* C28 as stated: parseFile is called only for a file both validations
\* accept; when a validation or the read fails an error is reported, the list
\* and the grouping stay as they were, and the loading indicator is hidden
\* when handleFile finishes.
C28_FailureHidesLoading ==
    [][(fnArg'.op = "handleFile") =>
           /\ fnArg'.parsed => \E file \in AppFiles \ (RefusedFiles \cup FailingFiles) : Handled(file)
           /\ \A file \in RefusedFiles : Refused(file) => FailsCleanly /\ ~ui'.loading
           /\ \A file \in FailingFiles : Handled(file) => FailsCleanly /\ ~ui'.loading]_vars

\* C28, amended: as stated, but a run that validateFile refuses leaves the
\* loading indicator as it was: hidden, or displayed for another run that
\* still awaits its file.
C28_FailureLeavesParserAlone ==
    [][(fnArg'.op = "handleFile") =>
           /\ fnArg'.parsed => \E file \in AppFiles \ (RefusedFiles \cup FailingFiles) : Handled(file)
           /\ \A file \in RefusedFiles :
                  Refused(file) =>
                      /\ FailsCleanly
                      /\ ui'.loading = ui.loading
                      /\ ui'.loading => reads' # EmptyBag
           /\ \A file \in FailingFiles : Handled(file) => FailsCleanly /\ ~ui'.loading]_vars

C28_Witness ==
    /\ fnArg.op = "handleFile"
    /\ fnArg.step = "readFile"
    /\ ~fnArg.parsed
    /\ fnRes = "Invalid File Format"
    /\ ui.lastError = "Invalid File Format"
    /\ ~ui.loading
    /\ content = fileA.text
    /\ Len(notes) = 2

\* C29: reset() leaves the state right after construction: every result view
\* hidden, the upload area displayed, the search box and the type filter
\* cleared, and no Record or group in the parser, so that a search for
\* everything, issued after it, finds nothing.
C29_ResetRestoresInitialState ==
    [][(fnArg'.op = "reset") =>
           /\ ui'.uploadArea
           /\ ~ui'.statsCard /\ ~ui'.controls /\ ~ui'.results /\ ~ui'.notesView
           /\ ui'.searchBox = <<>>
           /\ ui'.typeFilter = kwAll
           /\ notes' = <<>>
           /\ books' = <<>>
           /\ searchNotes(notes', <<>>, kwAll) = <<>>]_vars

=============================================================================
